---- MODULE Spec2Model ----
(***************************************************************************)
(* A model of the fmtm front-end: the SplitTasks wizard step (split        *)
(* preview, submission, QR-log polling), the download thunks of            *)
(* api/Project.js and the ProjectDetailsForm with CreateProjectValidation. *)
(*                                                                         *)
(* React is modelled by its contract: a store dispatch marks the changed   *)
(* dependencies of the mounted component, and the effects whose            *)
(* dependencies changed run (RunEffects) before the next event is handled. *)
(* Three specifications share the variables: Spec (SplitTasks),            *)
(* SpecProject (api/Project.js) and SpecForm (ProjectDetailsForm).         *)
(***************************************************************************)
EXTENDS Integers, Sequences, FiniteSets, TLC

\* ---------------------------------------------------------------- bounds
\* QR generations the backend starts (fresh task ids 1..MaxGenerations)
MaxGenerations == 2
\* timer ids the browser hands out
MaxTimers == 2
\* GenerateProjectLog requests in flight at once
MaxLogInFlight == 2
\* preview requests of one kind, and create requests, in flight at once
MaxPending == 1
\* calls of the download thunks that may be outstanding or finished at once
MaxCalls == 2
\* greatest length of a project name
MaxNameLen == 2
\* pages the backend reports for the submission table
MaxPages == 3
\* characters typed into the jump-to input
MaxInputLen == 2
\* SubmissionTableService calls outstanding at once
MaxTableInFlight == 2
\* OrganisationDataService calls outstanding at once
MaxOrgInFlight == 2
\* listeners of one kind the map holds
MaxMapListeners == 3
\* tasks of a project, and the largest submission count of a task
MaxTasks == 2
MaxCount == 12
\* ids of the timeouts of the search box
MaxSearchTimers == 2
\* pages the backend holds for a filter
MaxFilterPages == 2

\* ------------------------------------------------------------ vocabulary
NULL == "null"
\* task_split_type (types/enums), by name
DIVIDE_ON_SQUARE == "divide_on_square"
CHOOSE_AREA_AS_TASK == "choose_area_as_task"
TASK_SPLITTING_ALGORITHM == "task_splitting_algorithm"
SplitTypes == {DIVIDE_ON_SQUARE, CHOOSE_AREA_AS_TASK, TASK_SPLITTING_ALGORITHM}
\* generateProjectLog.status
LogStatuses == {"PENDING", "SUCCESS", "FAILED"}

VARIABLES
  \* createproject slice of the store
  generateQrSuccess,          \* 0 (null) or the task id of the generation
  generateProjectLog,         \* NULL or the status of the stored log
  splitTasksSelection,        \* NULL or a split type
  dividedTaskGeojson,         \* NULL or a geometry, named by its origin
  taskSplittingGeojson,
  drawnGeojson,
  isTasksGenerated,           \* [divide_on_square, task_splitting_algorithm]
  canSwitchCreateProjectSteps,
  projectDetails,
  \* module-level handle of SplitTasks
  generateProjectLogIntervalCb,   \* 0 (null) or a timer id
  \* the browser: running intervals [id, uuid], pending navigation
  activeTimers,
  navTo,
  \* the SplitTasks component
  mounted,
  toggleStatus,
  taskGenerationStatus,
  dirty,                      \* effect dependencies changed since the last flush
  \* requests in flight
  logInFlight,
  previewInFlight,
  createInFlight,
  \* observations
  generations,                \* QR generations started so far
  logRequestedFor,            \* uuid of the latest GenerateProjectLog dispatch
  lastClear,                  \* clearInterval calls / timers stopped by the last step
  \* api/Project.js: the calls of the thunks, and the loading flags they set
  calls,
  downloadProjectFormLoading,
  downloadDataExtractLoading,
  downloadTileLoading,
  projectDetailsLoading,      \* SetProjectDetialsLoading
  projectTaskBoundries,       \* NULL or the project the stored boundaries are of
  projectInfo,                \* NULL or the project the stored info is of
  tilesListLoading,
  tilesList,                  \* NULL or the project the stored tiles list is of
  generateProjectTilesLoading,
  projectDashboardLoading,
  projectDashboardDetail,
  lastIssued,                 \* observation: the call slot of the latest ProjectById
  \* ProjectDetailsForm: useForm's state, the component's state, the regex
  formMounted,
  values,
  errors,
  hasODKCredentials,
  organisationList,
  organisationInFlight,
  regexForSymbolLastIndex,
  currentStep,                \* SetCurrentStepFormStep
  formRoute,                  \* the route the form has navigated to
  lastSubmit,                 \* what the last handleSubmit did
  \* SubmissionsTable: the component's state, the stored table, the requests
  tableMounted,
  paginationPage,             \* a JavaScript number
  submissionTableData,        \* the pagination of the stored response, if any
  submissionTableDataLoading,
  tableInFlight,              \* page and filter of the outstanding SubmissionTableService calls
  filter,                     \* [task_id, submitted_by, review_state, submitted_date]
  submittedBy,                \* the text of the search box
  searchTimers,               \* the pending timeouts: [id, text]
  timeoutId,                  \* the id the debounce effect's cleanup holds, 0 before any
  \* the Organisation view: its state, the stored list, the requests
  orgMounted,
  activeTab,
  verifiedTab,
  myOrgsLoaded,
  organisationData,           \* NULL or the endpoint the stored list came from
  orgInFlight,                \* endpoints of the outstanding OrganisationDataService calls
  myOrgInFlight,              \* outstanding MyOrganisationDataService calls
  myOrgDispatches,            \* observation: dispatches by the mounted instance
  \* VectorLayer: the instance's props and state, and what the map holds
  vlMounted,
  vlProps,                    \* [geojson, onDraw, onModify, hoverEffect]
  vectorLayer,                \* 0 (null) or the layer built from that geojson
  mapInteractions,            \* the interactions added to the map
  clickListeners,             \* 'click' listeners the map holds
  cursorListeners,            \* 'pointermove' listeners of the cursor effect
  hoverListener,              \* pointerMovefn is a 'pointermove' listener
  \* TaskSubmissionsMap: the counts, the legend of the render, the last fill
  taskInfo,                   \* the submission_count of each task
  legendColorArray,
  featureCount,               \* the count setChoropleth has looked up last
  choroplethColor             \* the colour it has returned, NULL before

wizardVars == <<generateQrSuccess, generateProjectLog, splitTasksSelection,
                dividedTaskGeojson, taskSplittingGeojson, drawnGeojson,
                isTasksGenerated, canSwitchCreateProjectSteps, projectDetails,
                generateProjectLogIntervalCb, activeTimers, navTo, mounted,
                toggleStatus, taskGenerationStatus, dirty, logInFlight,
                previewInFlight, createInFlight, generations, logRequestedFor,
                lastClear>>

downloadVars == <<downloadProjectFormLoading, downloadDataExtractLoading,
                  downloadTileLoading>>
projectByIdVars == <<projectDetailsLoading, projectTaskBoundries, projectInfo,
                     lastIssued>>
tilesVars == <<tilesListLoading, tilesList, generateProjectTilesLoading>>
dashboardVars == <<projectDashboardLoading, projectDashboardDetail>>

projectVars == <<calls, downloadVars, projectByIdVars, tilesVars, dashboardVars>>

formVars == <<formMounted, values, errors, hasODKCredentials, organisationList,
              organisationInFlight, regexForSymbolLastIndex, currentStep,
              formRoute, lastSubmit>>

tableVars == <<tableMounted, paginationPage, submissionTableData,
               submissionTableDataLoading, tableInFlight, filter, submittedBy,
               searchTimers, timeoutId>>

organisationVars == <<orgMounted, activeTab, verifiedTab, myOrgsLoaded,
                      organisationData, orgInFlight, myOrgInFlight,
                      myOrgDispatches>>

mapVars == <<vlMounted, vlProps, vectorLayer, mapInteractions, clickListeners,
             cursorListeners, hoverListener>>

choroplethVars == <<taskInfo, legendColorArray, featureCount, choroplethColor>>

vars == <<wizardVars, projectVars, formVars, tableVars, organisationVars, mapVars,
          choroplethVars>>

\* what the actions of one part leave alone
notWizardVars == <<projectVars, formVars, tableVars, organisationVars, mapVars,
  choroplethVars>>
notProjectVars == <<wizardVars, formVars, tableVars, organisationVars, mapVars,
  choroplethVars>>
notTableVars == <<wizardVars, projectVars, formVars, organisationVars, mapVars,
  choroplethVars>>
notOrganisationVars == <<wizardVars, projectVars, formVars, tableVars, mapVars,
  choroplethVars>>
notMapVars == <<wizardVars, projectVars, formVars, tableVars, organisationVars,
  choroplethVars>>
notChoroplethVars == <<wizardVars, projectVars, formVars, tableVars,
  organisationVars, mapVars>>

\* ------------------------------------------------------ store: the slice
\* initialState.projectDetails; a name is the sequence of its characters and
\* organisation_id 0 is null
InitialProjectDetails ==
  [dimension |-> 10, no_of_buildings |-> 5, hashtags |-> "", name |-> <<>>,
   short_description |-> "", odk_central_url |-> "", odk_central_user |-> "",
   odk_central_password |-> "", description |-> "", organisation_id |-> 0,
   per_task_instructions |-> ""]

\* the projectDetails ClearCreateProjectFormData stores
ClearedProjectDetails ==
  [dimension |-> 10, no_of_buildings |-> 5, hashtags |-> "", name |-> <<>>,
   short_description |-> "", odk_central_url |-> "", odk_central_user |-> "",
   odk_central_password |-> "", description |-> "", organisation_id |-> 0]

\* what the earlier wizard steps have stored when SplitTasks is reached
FilledProjectDetails ==
  [InitialProjectDetails EXCEPT !.name = <<"p">>, !.short_description = "s",
   !.description = "d", !.organisation_id = 1]

NoTasksGenerated == [divide_on_square |-> FALSE, task_splitting_algorithm |-> FALSE]

\* GenerateProjectQRSuccess(state, action): the stored generateQrSuccess
GenerateProjectQRSuccess(status, taskId) ==
  IF status = "SUCCESS" THEN 0 ELSE taskId

\* SetIsTasksGenerated(state, {key, value})
SetIsTasksGenerated(flags, key, value) == [flags EXCEPT ![key] = value]

\* ------------------------------------------------------------ the browser
TimerIds == {t.id : t \in activeTimers}

\* clearInterval that stops nothing
ClearInterval_stopsNothing(handle, timers) == timers

\* clearInterval(handle): a null or stale handle stops nothing
ClearInterval(handle, timers) == {t \in timers : t.id # handle}

\* the id setInterval returns: one no running timer and no handle holds
FreeTimerIds == (1..MaxTimers) \ (TimerIds \cup {generateProjectLogIntervalCb})
NewTimerId == CHOOSE i \in FreeTimerIds : \A j \in FreeTimerIds : i <= j

Clean == [sel |-> FALSE, gen |-> FALSE, qr |-> FALSE, log |-> FALSE]
AllDirty == [sel |-> TRUE, gen |-> TRUE, qr |-> TRUE, log |-> TRUE]
AnyDirty == dirty.sel \/ dirty.gen \/ dirty.qr \/ dirty.log

\* no effect is waiting to run and no navigation is under way
Settled == navTo = "none" /\ (~mounted \/ ~AnyDirty)

NoClear == [calls |-> 0, stopped |-> 0]

\* ------------------------------------------------- SplitTasks: the effects
\* checkTasksGeneration: the value given to setTaskGenerationStatus
checkTasksGeneration(flags, selection) ==
  IF ~flags.divide_on_square /\ selection = DIVIDE_ON_SQUARE THEN FALSE
  ELSE IF ~flags.task_splitting_algorithm /\ selection = TASK_SPLITTING_ALGORITHM
       THEN FALSE
       ELSE TRUE

\* the selection effect dispatches SetDividedTaskGeojson(null)
ClearsDividedTask(selection) == selection = CHOOSE_AREA_AS_TASK

\* the first log effect dispatches GenerateProjectLog
RequestsLog(qr, handle) == qr # 0 /\ handle = 0

\* the second log effect without its FAILED branch
LogEffectBranch_noFailed(qr, log) ==
  IF qr # 0 /\ log = "SUCCESS" THEN "SUCCESS" ELSE "none"

\* the second log effect: the terminal branch it takes
LogEffectBranch(qr, log) ==
  IF qr # 0 /\ log = "FAILED" THEN "FAILED"
  ELSE IF qr # 0 /\ log = "SUCCESS" THEN "SUCCESS"
  ELSE "none"

\* the second log effect without the guard on the handle
StartsInterval_noGuard(qr, log, handle) == qr # 0 /\ log = "PENDING"

\* the second log effect: whether it calls setInterval
StartsInterval(qr, log, handle) == qr # 0 /\ log = "PENDING" /\ handle = 0

\* ClearCreateProjectFormData that keeps the project details
ClearCreateProjectFormData_keepsDetails ==
  /\ projectDetails' = projectDetails
  /\ splitTasksSelection' = NULL
  /\ taskSplittingGeojson' = NULL
  /\ drawnGeojson' = NULL
  /\ generateProjectLog' = NULL
  /\ dividedTaskGeojson' = NULL

\* ClearCreateProjectFormData(state), on the fields of the slice modelled here
ClearCreateProjectFormData ==
  /\ projectDetails' = ClearedProjectDetails
  /\ splitTasksSelection' = NULL
  /\ taskSplittingGeojson' = NULL
  /\ drawnGeojson' = NULL
  /\ generateProjectLog' = NULL
  /\ dividedTaskGeojson' = NULL

\* The effects whose dependencies changed, in the order of the component:
\* checkTasksGeneration, the selection effect, the two log effects.
RunEffects ==
  /\ mounted /\ navTo = "none" /\ AnyDirty
  /\ LET runGen == dirty.sel \/ dirty.gen
         runSel == dirty.sel
         runLog1 == dirty.qr
         runLog2 == dirty.qr \/ dirty.log
         handle == generateProjectLogIntervalCb
         request == runLog1 /\ RequestsLog(generateQrSuccess, handle)
         branch == IF runLog2
                   THEN LogEffectBranch(generateQrSuccess, generateProjectLog)
                   ELSE "none"
         start == runLog2 /\ StartsInterval(generateQrSuccess, generateProjectLog, handle)
     IN /\ start => FreeTimerIds # {}
        /\ taskGenerationStatus' =
             IF runGen THEN checkTasksGeneration(isTasksGenerated, splitTasksSelection)
                       ELSE taskGenerationStatus
        /\ logInFlight' = IF request THEN logInFlight + 1 ELSE logInFlight
        /\ logRequestedFor' = IF request THEN generateQrSuccess ELSE logRequestedFor
        /\ toggleStatus' = (toggleStatus \/ request)
        /\ activeTimers' =
             IF branch # "none" THEN ClearInterval(handle, activeTimers)
             ELSE IF start
                  THEN activeTimers \cup {[id |-> NewTimerId, uuid |-> generateQrSuccess]}
                  ELSE activeTimers
        /\ generateProjectLogIntervalCb' = IF start THEN NewTimerId ELSE handle
        /\ lastClear' =
             IF branch # "none"
             THEN [calls |-> 1,
                   stopped |-> Cardinality(activeTimers)
                                 - Cardinality(ClearInterval(handle, activeTimers))]
             ELSE NoClear
        /\ IF branch = "SUCCESS"
           THEN /\ generateQrSuccess' = 0
                /\ navTo' = "project_details"
                /\ ClearCreateProjectFormData
                /\ canSwitchCreateProjectSteps' = FALSE
                /\ dirty' = [sel |-> splitTasksSelection # NULL, gen |-> FALSE,
                             qr |-> TRUE, log |-> TRUE]
           ELSE /\ dividedTaskGeojson' =
                     IF runSel /\ ClearsDividedTask(splitTasksSelection)
                     THEN NULL ELSE dividedTaskGeojson
                /\ dirty' = Clean
                /\ UNCHANGED <<generateQrSuccess, generateProjectLog, navTo,
                               projectDetails, splitTasksSelection,
                               taskSplittingGeojson, drawnGeojson,
                               canSwitchCreateProjectSteps>>
  /\ UNCHANGED <<isTasksGenerated, mounted, previewInFlight, createInFlight,
                 generations>>
  /\ UNCHANGED notWizardVars

\* The wizard reaches the split-tasks step: the earlier steps have stored the
\* project details and the drawn area; every effect runs on mount.
Mount ==
  /\ ~mounted /\ logInFlight < MaxLogInFlight
  /\ mounted' = TRUE
  /\ dirty' = AllDirty
  /\ toggleStatus' = FALSE
  /\ taskGenerationStatus' = FALSE
  /\ drawnGeojson' = "aoi"
  /\ projectDetails' = FilledProjectDetails
  /\ lastClear' = NoClear
  /\ UNCHANGED <<generateQrSuccess, generateProjectLog, splitTasksSelection,
                 dividedTaskGeojson, taskSplittingGeojson, isTasksGenerated,
                 canSwitchCreateProjectSteps, generateProjectLogIntervalCb,
                 activeTimers, navTo, logInFlight, previewInFlight,
                 createInFlight, generations, logRequestedFor>>
  /\ UNCHANGED notWizardVars

\* PREVIOUS: toggleStep(3, '/data-extract')
Previous ==
  /\ mounted /\ Settled
  /\ navTo' = "data-extract"
  /\ lastClear' = NoClear
  /\ UNCHANGED <<generateQrSuccess, generateProjectLog, splitTasksSelection,
                 dividedTaskGeojson, taskSplittingGeojson, drawnGeojson,
                 isTasksGenerated, canSwitchCreateProjectSteps, projectDetails,
                 generateProjectLogIntervalCb, activeTimers, mounted,
                 toggleStatus, taskGenerationStatus, dirty, logInFlight,
                 previewInFlight, createInFlight, generations, logRequestedFor>>
  /\ UNCHANGED notWizardVars

\* The route has changed: the cleanup of the [] effect runs.
Unmount ==
  /\ mounted /\ navTo # "none"
  /\ activeTimers' = ClearInterval(generateProjectLogIntervalCb, activeTimers)
  /\ generateProjectLogIntervalCb' = 0
  /\ generateProjectLog' = NULL
  /\ lastClear' = [calls |-> 1,
                   stopped |-> Cardinality(activeTimers)
                                 - Cardinality(activeTimers')]
  /\ mounted' = FALSE
  /\ navTo' = "none"
  /\ dirty' = Clean
  /\ toggleStatus' = FALSE
  /\ taskGenerationStatus' = FALSE
  /\ UNCHANGED <<generateQrSuccess, splitTasksSelection, dividedTaskGeojson,
                 taskSplittingGeojson, drawnGeojson, isTasksGenerated,
                 canSwitchCreateProjectSteps, projectDetails, logInFlight,
                 previewInFlight, createInFlight, generations, logRequestedFor>>
  /\ UNCHANGED notWizardVars

\* ------------------------------------------- SplitTasks: the user's actions
\* RadioButton onChangeData: the flags are reset for this value
ResetsTasksGenerated(value) == value = CHOOSE_AREA_AS_TASK

\* RadioButton onChangeData(value)
SelectSplitType(value) ==
  /\ mounted /\ Settled
  /\ value # splitTasksSelection
  /\ splitTasksSelection' = value
  /\ isTasksGenerated' =
       IF ResetsTasksGenerated(value)
       THEN SetIsTasksGenerated(
              SetIsTasksGenerated(isTasksGenerated, DIVIDE_ON_SQUARE, FALSE),
              TASK_SPLITTING_ALGORITHM, FALSE)
       ELSE isTasksGenerated
  /\ dirty' = [dirty EXCEPT !.sel = TRUE, !.gen = ResetsTasksGenerated(value)]
  /\ lastClear' = NoClear
  /\ UNCHANGED <<generateQrSuccess, generateProjectLog, dividedTaskGeojson,
                 taskSplittingGeojson, drawnGeojson, canSwitchCreateProjectSteps,
                 projectDetails, generateProjectLogIntervalCb, activeTimers,
                 navTo, mounted, toggleStatus, taskGenerationStatus, logInFlight,
                 previewInFlight, createInFlight, generations, logRequestedFor>>
  /\ UNCHANGED notWizardVars

\* generateTaskBasedOnSelection: the preview thunk it dispatches, if any
PreviewEndpoint(selection) ==
  IF selection = DIVIDE_ON_SQUARE THEN DIVIDE_ON_SQUARE
  ELSE IF selection = TASK_SPLITTING_ALGORITHM THEN TASK_SPLITTING_ALGORITHM
  ELSE NULL

\* the url the preview thunk is given
PreviewUrl(selection) ==
  IF selection = DIVIDE_ON_SQUARE THEN "/projects/preview-split-by-square/"
  ELSE IF selection = TASK_SPLITTING_ALGORITHM THEN "/projects/task-split"
  ELSE NULL

\* formValues.dataExtractWays, as the data-extract step has left it
DataExtractWays == {"osm_data_extract", "custom_data_extract", NULL}

\* the extract file that is sent whatever dataExtractWays says
DataExtractFile_always(selection, dataExtractWays) ==
  IF selection = TASK_SPLITTING_ALGORITHM THEN "extract.json" ELSE NULL

\* the extract file the preview thunk is given: only TaskSplittingPreviewService
\* takes one, and null for the OSM extract
DataExtractFile(selection, dataExtractWays) ==
  IF selection = TASK_SPLITTING_ALGORITHM /\ dataExtractWays # "osm_data_extract"
  THEN "extract.json"
  ELSE NULL

\* the request generateTaskBasedOnSelection sends: the url, the file of the
\* drawn area and the extract file
PreviewRequest(selection, drawn, dataExtractWays) ==
  [url |-> PreviewUrl(selection), geojson |-> drawn,
   extract |-> DataExtractFile(selection, dataExtractWays)]

\* "Click to generate task", shown for the two generating selections
generateTaskBasedOnSelection ==
  /\ mounted /\ Settled
  /\ PreviewEndpoint(splitTasksSelection) # NULL
  /\ previewInFlight[PreviewEndpoint(splitTasksSelection)] < MaxPending
  /\ previewInFlight' =
       [previewInFlight EXCEPT ![PreviewEndpoint(splitTasksSelection)] = @ + 1]
  /\ lastClear' = NoClear
  /\ UNCHANGED <<generateQrSuccess, generateProjectLog, splitTasksSelection,
                 dividedTaskGeojson, taskSplittingGeojson, drawnGeojson,
                 isTasksGenerated, canSwitchCreateProjectSteps, projectDetails,
                 generateProjectLogIntervalCb, activeTimers, navTo, mounted,
                 toggleStatus, taskGenerationStatus, dirty, logInFlight,
                 createInFlight, generations, logRequestedFor>>
  /\ UNCHANGED notWizardVars

\* GetTaskSplittingPreview(state, action): both geometries take the payload
GetTaskSplittingPreview(payload) ==
  /\ dividedTaskGeojson' = payload
  /\ taskSplittingGeojson' = payload

\* GetDividedTaskFromGeojson: the response of preview-split-by-square arrives
GetDividedTaskFromGeojson(ok) ==
  /\ Settled
  /\ previewInFlight[DIVIDE_ON_SQUARE] > 0
  /\ previewInFlight' = [previewInFlight EXCEPT ![DIVIDE_ON_SQUARE] = @ - 1]
  /\ IF ok
     THEN /\ dividedTaskGeojson' = "squares"
          /\ isTasksGenerated' =
               SetIsTasksGenerated(isTasksGenerated, DIVIDE_ON_SQUARE, TRUE)
          /\ dirty' = [dirty EXCEPT !.gen = TRUE]
     ELSE UNCHANGED <<dividedTaskGeojson, isTasksGenerated, dirty>>
  /\ lastClear' = NoClear
  /\ UNCHANGED <<generateQrSuccess, generateProjectLog, splitTasksSelection,
                 taskSplittingGeojson, drawnGeojson, canSwitchCreateProjectSteps,
                 projectDetails, generateProjectLogIntervalCb, activeTimers,
                 navTo, mounted, toggleStatus, taskGenerationStatus, logInFlight,
                 createInFlight, generations, logRequestedFor>>
  /\ UNCHANGED notWizardVars

\* TaskSplittingPreviewService: the response of task-split arrives
TaskSplittingPreviewService(ok) ==
  /\ Settled
  /\ previewInFlight[TASK_SPLITTING_ALGORITHM] > 0
  /\ previewInFlight' = [previewInFlight EXCEPT ![TASK_SPLITTING_ALGORITHM] = @ - 1]
  /\ IF ok
     THEN /\ GetTaskSplittingPreview("algorithm")
          /\ isTasksGenerated' =
               SetIsTasksGenerated(isTasksGenerated, TASK_SPLITTING_ALGORITHM, TRUE)
          /\ dirty' = [dirty EXCEPT !.gen = TRUE]
     ELSE UNCHANGED <<dividedTaskGeojson, taskSplittingGeojson, isTasksGenerated,
                      dirty>>
  /\ lastClear' = NoClear
  /\ UNCHANGED <<generateQrSuccess, generateProjectLog, splitTasksSelection,
                 drawnGeojson, canSwitchCreateProjectSteps, projectDetails,
                 generateProjectLogIntervalCb, activeTimers, navTo, mounted,
                 toggleStatus, taskGenerationStatus, logInFlight, createInFlight,
                 generations, logRequestedFor>>
  /\ UNCHANGED notWizardVars

\* the geometry submission sends: dividedTaskGeojson || drawnGeojson
OutlineGeojson(divided, drawn) == IF divided # NULL THEN divided ELSE drawn

\* the extra parameter that is the dimension for every split type
SplitParameter_alwaysDimension(selection) == "task_split_dimension"

\* the extra parameter appended to projectData, by the split type
SplitParameter(selection) ==
  IF selection = TASK_SPLITTING_ALGORITHM THEN "task_num_buildings"
  ELSE "task_split_dimension"

\* the keys projectData has before the extra parameter is appended
ProjectDataKeys ==
  {"project_info", "outline_geojson", "odk_central_url", "odk_central_user",
   "odk_central_password", "xform_category", "task_split_type", "form_ways",
   "hashtags", "data_extract_url"}

\* projectData and taskAreaGeojsonFile, as submission() builds them
ProjectData(details, selection, divided, drawn) ==
  [keys |-> ProjectDataKeys \cup {SplitParameter(selection)},
   project_info |-> [name |-> details.name,
                     short_description |-> details.short_description,
                     description |-> details.description,
                     per_task_instructions |->
                       IF "per_task_instructions" \in DOMAIN details
                       THEN details.per_task_instructions ELSE NULL],
   outline_geojson |-> OutlineGeojson(divided, drawn),
   task_split_type |-> selection,
   taskAreaGeojsonFile |-> OutlineGeojson(divided, drawn)]

\* SUBMIT, enabled by taskGenerationStatus: submission() after the form's
\* validation has passed
submission ==
  /\ mounted /\ Settled
  /\ taskGenerationStatus
  /\ splitTasksSelection \in SplitTypes
  /\ createInFlight < MaxPending
  /\ createInFlight' = createInFlight + 1
  /\ canSwitchCreateProjectSteps' = TRUE
  /\ lastClear' = NoClear
  /\ UNCHANGED <<generateQrSuccess, generateProjectLog, splitTasksSelection,
                 dividedTaskGeojson, taskSplittingGeojson, drawnGeojson,
                 isTasksGenerated, projectDetails, generateProjectLogIntervalCb,
                 activeTimers, navTo, mounted, toggleStatus,
                 taskGenerationStatus, dirty, logInFlight, previewInFlight,
                 generations, logRequestedFor>>
  /\ UNCHANGED notWizardVars

\* ------------------------------------------------- the backend's responses
\* CreateProjectService: creation and the QR-generation trigger have answered
\* with a task id and a status, or one of the requests has failed
CreateProjectService(outcome) ==
  /\ Settled
  /\ createInFlight > 0
  /\ createInFlight' = createInFlight - 1
  /\ IF outcome = "error"
     THEN UNCHANGED <<generateQrSuccess, generations, dirty>>
     ELSE /\ generations < MaxGenerations
          /\ logInFlight < MaxLogInFlight
          /\ generations' = generations + 1
          /\ generateQrSuccess' = GenerateProjectQRSuccess(outcome, generations + 1)
          /\ dirty' = [dirty EXCEPT
                         !.qr = generateQrSuccess # 0 \/ generateQrSuccess' # 0]
  /\ lastClear' = NoClear
  /\ UNCHANGED <<generateProjectLog, splitTasksSelection, dividedTaskGeojson,
                 taskSplittingGeojson, drawnGeojson, isTasksGenerated,
                 canSwitchCreateProjectSteps, projectDetails,
                 generateProjectLogIntervalCb, activeTimers, navTo, mounted,
                 toggleStatus, taskGenerationStatus, logInFlight,
                 previewInFlight, logRequestedFor>>
  /\ UNCHANGED notWizardVars

\* a running interval fires: its callback dispatches GenerateProjectLog with
\* the uuid it captured
IntervalTick(t) ==
  /\ Settled
  /\ t \in activeTimers
  /\ logInFlight < MaxLogInFlight
  /\ logInFlight' = logInFlight + 1
  /\ logRequestedFor' = t.uuid
  /\ lastClear' = NoClear
  /\ UNCHANGED <<generateQrSuccess, generateProjectLog, splitTasksSelection,
                 dividedTaskGeojson, taskSplittingGeojson, drawnGeojson,
                 isTasksGenerated, canSwitchCreateProjectSteps, projectDetails,
                 generateProjectLogIntervalCb, activeTimers, navTo, mounted,
                 toggleStatus, taskGenerationStatus, dirty, previewInFlight,
                 createInFlight, generations>>
  /\ UNCHANGED notWizardVars

\* SetGenerateProjectLog that keeps a log already stored
SetGenerateProjectLog_keepsStored(payload) ==
  generateProjectLog' = IF generateProjectLog = NULL THEN payload
                        ELSE generateProjectLog

\* SetGenerateProjectLog(state, action)
SetGenerateProjectLog(payload) == generateProjectLog' = payload

\* GenerateProjectLog: the log endpoint answers with a status
GenerateProjectLog(status) ==
  /\ Settled
  /\ logInFlight > 0
  /\ logInFlight' = logInFlight - 1
  /\ SetGenerateProjectLog(status)
  /\ dirty' = [dirty EXCEPT !.log = TRUE]
  /\ lastClear' = NoClear
  /\ UNCHANGED <<generateQrSuccess, splitTasksSelection, dividedTaskGeojson,
                 taskSplittingGeojson, drawnGeojson, isTasksGenerated,
                 canSwitchCreateProjectSteps, projectDetails,
                 generateProjectLogIntervalCb, activeTimers, navTo, mounted,
                 toggleStatus, taskGenerationStatus, previewInFlight,
                 createInFlight, generations, logRequestedFor>>
  /\ UNCHANGED notWizardVars

\* GenerateProjectLog: the request fails and the error is swallowed
GenerateProjectLogFails ==
  /\ Settled
  /\ logInFlight > 0
  /\ logInFlight' = logInFlight - 1
  /\ lastClear' = NoClear
  /\ UNCHANGED <<generateQrSuccess, generateProjectLog, splitTasksSelection,
                 dividedTaskGeojson, taskSplittingGeojson, drawnGeojson,
                 isTasksGenerated, canSwitchCreateProjectSteps, projectDetails,
                 generateProjectLogIntervalCb, activeTimers, navTo, mounted,
                 toggleStatus, taskGenerationStatus, dirty, previewInFlight,
                 createInFlight, generations, logRequestedFor>>
  /\ UNCHANGED notWizardVars

\* ------------------------------------------- api/Project.js: the downloads
CallIds == 1..MaxCalls
\* the payload of DownloadProjectForm names the file: the form or the task polygons
FormPayloads == {"form", "geojson"}
\* the payload of DownloadTile is the tile archive's name
TilePayloads == {"mbtiles"}
FreeCall == [thunk |-> "none", payload |-> NULL, pc |-> "free", dispatched |-> <<>>]

\* what a download thunk dispatches to its loading flag once its request has
\* settled: the try block (or the catch block), then the finally block
DownloadSettles(ok) == (IF ok THEN <<FALSE>> ELSE <<FALSE>>) \o <<FALSE>>

Last(seq) == seq[Len(seq)]

DownloadProjectForm(c, payload) ==
  /\ calls[c].pc # "waiting"
  /\ calls' = [calls EXCEPT ![c] = [thunk |-> "DownloadProjectForm",
                                    payload |-> payload, pc |-> "waiting",
                                    dispatched |-> <<TRUE>>]]
  /\ downloadProjectFormLoading' = [type |-> payload, loading |-> TRUE]
  /\ UNCHANGED <<downloadDataExtractLoading, downloadTileLoading>>
  /\ UNCHANGED <<projectByIdVars, tilesVars, dashboardVars>>
  /\ UNCHANGED notProjectVars

\* fetchProjectForm continues after the request: it succeeded or it failed
fetchProjectForm(c, ok) ==
  /\ calls[c].thunk = "DownloadProjectForm" /\ calls[c].pc = "waiting"
  /\ calls' = [calls EXCEPT ![c].pc = "done",
                            ![c].dispatched = @ \o DownloadSettles(ok)]
  /\ downloadProjectFormLoading' =
       [type |-> calls[c].payload, loading |-> Last(DownloadSettles(ok))]
  /\ UNCHANGED <<downloadDataExtractLoading, downloadTileLoading>>
  /\ UNCHANGED <<projectByIdVars, tilesVars, dashboardVars>>
  /\ UNCHANGED notProjectVars

DownloadDataExtract(c) ==
  /\ calls[c].pc # "waiting"
  /\ calls' = [calls EXCEPT ![c] = [thunk |-> "DownloadDataExtract",
                                    payload |-> NULL, pc |-> "waiting",
                                    dispatched |-> <<TRUE>>]]
  /\ downloadDataExtractLoading' = TRUE
  /\ UNCHANGED <<downloadProjectFormLoading, downloadTileLoading>>
  /\ UNCHANGED <<projectByIdVars, tilesVars, dashboardVars>>
  /\ UNCHANGED notProjectVars

getDownloadExtract(c, ok) ==
  /\ calls[c].thunk = "DownloadDataExtract" /\ calls[c].pc = "waiting"
  /\ calls' = [calls EXCEPT ![c].pc = "done",
                            ![c].dispatched = @ \o DownloadSettles(ok)]
  /\ downloadDataExtractLoading' = Last(DownloadSettles(ok))
  /\ UNCHANGED <<downloadProjectFormLoading, downloadTileLoading>>
  /\ UNCHANGED <<projectByIdVars, tilesVars, dashboardVars>>
  /\ UNCHANGED notProjectVars

DownloadTile(c, payload) ==
  /\ calls[c].pc # "waiting"
  /\ calls' = [calls EXCEPT ![c] = [thunk |-> "DownloadTile",
                                    payload |-> payload, pc |-> "waiting",
                                    dispatched |-> <<TRUE>>]]
  /\ downloadTileLoading' = [type |-> payload, loading |-> TRUE]
  /\ UNCHANGED <<downloadProjectFormLoading, downloadDataExtractLoading>>
  /\ UNCHANGED <<projectByIdVars, tilesVars, dashboardVars>>
  /\ UNCHANGED notProjectVars

\* getDownloadTile continues: the request failed, or it succeeded with or
\* without a content-disposition header (without one the try block throws)
getDownloadTile(c, ok, hasHeader) ==
  /\ calls[c].thunk = "DownloadTile" /\ calls[c].pc = "waiting"
  /\ calls' = [calls EXCEPT ![c].pc = "done",
                            ![c].dispatched = @ \o DownloadSettles(ok /\ hasHeader)]
  /\ downloadTileLoading' =
       [type |-> calls[c].payload, loading |-> Last(DownloadSettles(ok /\ hasHeader))]
  /\ UNCHANGED <<downloadProjectFormLoading, downloadDataExtractLoading>>
  /\ UNCHANGED <<projectByIdVars, tilesVars, dashboardVars>>
  /\ UNCHANGED notProjectVars

\* ---------------------------------------- api/Project.js: the other thunks
\* the projects the thunks are called for
ProjectIds == {"p1", "p2"}
\* the requests of fetchProjectById, in their order
ProjectByIdRequests == <<"project", "taskList", "taskBbox">>
Outstanding(c) == calls[c].pc \notin {"free", "done"}

\* ProjectById(existingProjectList, projectId), up to its first await; log
\* is the observation of what the call has dispatched and requested, in order
ProjectById(c, projectId) ==
  /\ ~Outstanding(c)
  /\ calls' = [calls EXCEPT ![c] = [thunk |-> "ProjectById", payload |-> projectId,
                                    pc |-> ProjectByIdRequests[1],
                                    dispatched |-> <<TRUE>>,
                                    log |-> <<"SetProjectDetialsLoading",
                                              ProjectByIdRequests[1]>>]]
  /\ projectDetailsLoading' = TRUE
  /\ lastIssued' = c
  /\ UNCHANGED <<projectTaskBoundries, projectInfo>>
  /\ UNCHANGED <<downloadVars, tilesVars, dashboardVars>>
  /\ UNCHANGED notProjectVars

\* the project whose data the final dispatches store
SetProjectInfo_ofLatestCall(c) == calls[lastIssued].payload

\* the project whose data SetProjectTaskBoundries and SetProjectInfo store:
\* that of the responses of this call
SetProjectInfo(c) == calls[c].payload

\* the next request for which fetchProjectById waits, "done" after the last
NextRequest(pc) ==
  IF pc = ProjectByIdRequests[1] THEN ProjectByIdRequests[2]
  ELSE IF pc = ProjectByIdRequests[2] THEN ProjectByIdRequests[3]
  ELSE "done"

\* how the call goes on after the request it waits for has settled: what it
\* dispatches and requests next; without SetNewProjectTrigger after a failure
Continues_noTriggerOnFailure(pc, ok, hasPoints) ==
  IF ~ok \/ (NextRequest(pc) = "done" /\ ~hasPoints)
  THEN <<>>
  ELSE IF NextRequest(pc) # "done"
  THEN <<NextRequest(pc)>>
  ELSE <<"SetProjectTaskBoundries", "SetProjectInfo", "SetProjectDetialsLoading",
         "SetNewProjectTrigger">>

\* how the call goes on after the request it waits for has settled: what it
\* dispatches and requests next
Continues(pc, ok, hasPoints) ==
  IF ~ok \/ (NextRequest(pc) = "done" /\ ~hasPoints)
  THEN <<"SetNewProjectTrigger">>
  ELSE IF NextRequest(pc) # "done"
  THEN <<NextRequest(pc)>>
  ELSE <<"SetProjectTaskBoundries", "SetProjectInfo", "SetProjectDetialsLoading",
         "SetNewProjectTrigger">>

\* fetchProjectById continues after the request it waits for: the request
\* failed (the catch block is empty), or it succeeded; after the last one the
\* boundaries are merged with the points, which throws if a task has none
fetchProjectById(c, ok, hasPoints) ==
  /\ calls[c].thunk = "ProjectById" /\ Outstanding(c)
  /\ IF ~ok \/ (NextRequest(calls[c].pc) = "done" /\ ~hasPoints)
     THEN /\ calls' = [calls EXCEPT ![c].pc = "done",
                                    ![c].log = @ \o Continues(calls[c].pc, ok, hasPoints)]
          /\ UNCHANGED <<projectDetailsLoading, projectTaskBoundries, projectInfo>>
     ELSE IF NextRequest(calls[c].pc) # "done"
     THEN /\ calls' = [calls EXCEPT ![c].pc = NextRequest(@),
                                    ![c].log = @ \o Continues(calls[c].pc, ok, hasPoints)]
          /\ UNCHANGED <<projectDetailsLoading, projectTaskBoundries, projectInfo>>
     ELSE /\ calls' = [calls EXCEPT ![c].pc = "done",
                                    ![c].dispatched = Append(@, FALSE),
                                    ![c].log = @ \o Continues(calls[c].pc, ok, hasPoints)]
          /\ projectTaskBoundries' = SetProjectInfo(c)
          /\ projectInfo' = SetProjectInfo(c)
          /\ projectDetailsLoading' = FALSE
  /\ UNCHANGED lastIssued
  /\ UNCHANGED <<downloadVars, tilesVars, dashboardVars>>
  /\ UNCHANGED notProjectVars

\* the call of GetTilesList(url) in slot c, up to its await
StartGetTilesList(c, projectId) ==
  [calls EXCEPT ![c] = [thunk |-> "GetTilesList", payload |-> projectId,
                        pc |-> "waiting", dispatched |-> <<TRUE>>]]

GetTilesList(c, projectId) ==
  /\ ~Outstanding(c)
  /\ calls' = StartGetTilesList(c, projectId)
  /\ tilesListLoading' = TRUE
  /\ UNCHANGED <<tilesList, generateProjectTilesLoading>>
  /\ UNCHANGED <<downloadVars, projectByIdVars, dashboardVars>>
  /\ UNCHANGED notProjectVars

fetchTilesList(c, ok) ==
  /\ calls[c].thunk = "GetTilesList" /\ Outstanding(c)
  /\ calls' = [calls EXCEPT ![c].pc = "done",
                            ![c].dispatched = @ \o DownloadSettles(ok)]
  /\ tilesList' = IF ok THEN calls[c].payload ELSE tilesList
  /\ tilesListLoading' = Last(DownloadSettles(ok))
  /\ UNCHANGED generateProjectTilesLoading
  /\ UNCHANGED <<downloadVars, projectByIdVars, dashboardVars>>
  /\ UNCHANGED notProjectVars

GenerateProjectTiles(c, projectId) ==
  /\ ~Outstanding(c)
  /\ calls' = [calls EXCEPT ![c] = [thunk |-> "GenerateProjectTiles",
                                    payload |-> projectId, pc |-> "waiting",
                                    dispatched |-> <<TRUE>>]]
  /\ generateProjectTilesLoading' = TRUE
  /\ UNCHANGED <<tilesListLoading, tilesList>>
  /\ UNCHANGED <<downloadVars, projectByIdVars, dashboardVars>>
  /\ UNCHANGED notProjectVars

\* generateProjectTiles continues: on success it dispatches GetTilesList,
\* which runs in slot d up to its await
generateProjectTiles(c, ok, d) ==
  /\ calls[c].thunk = "GenerateProjectTiles" /\ Outstanding(c)
  /\ d # c /\ ~Outstanding(d)
  /\ LET settled == [calls EXCEPT ![c].pc = "done",
                                  ![c].dispatched = @ \o DownloadSettles(ok)]
     IN IF ok
        THEN /\ calls' = [settled EXCEPT ![d] = StartGetTilesList(d, calls[c].payload)[d]]
             /\ tilesListLoading' = TRUE
        ELSE /\ calls' = settled
             /\ UNCHANGED tilesListLoading
  /\ generateProjectTilesLoading' = Last(DownloadSettles(ok))
  /\ UNCHANGED tilesList
  /\ UNCHANGED <<downloadVars, projectByIdVars, dashboardVars>>
  /\ UNCHANGED notProjectVars

GetProjectDashboard(c, projectId) ==
  /\ ~Outstanding(c)
  /\ calls' = [calls EXCEPT ![c] = [thunk |-> "GetProjectDashboard",
                                    payload |-> projectId, pc |-> "waiting",
                                    dispatched |-> <<TRUE>>]]
  /\ projectDashboardLoading' = TRUE
  /\ UNCHANGED projectDashboardDetail
  /\ UNCHANGED <<downloadVars, projectByIdVars, tilesVars>>
  /\ UNCHANGED notProjectVars

getProjectDashboard(c, ok) ==
  /\ calls[c].thunk = "GetProjectDashboard" /\ Outstanding(c)
  /\ calls' = [calls EXCEPT ![c].pc = "done",
                            ![c].dispatched = @ \o DownloadSettles(ok)]
  /\ projectDashboardDetail' = IF ok THEN calls[c].payload ELSE projectDashboardDetail
  /\ projectDashboardLoading' = Last(DownloadSettles(ok))
  /\ UNCHANGED <<downloadVars, projectByIdVars, tilesVars>>
  /\ UNCHANGED notProjectVars

\* ------------------------------------------------ CreateProjectValidation
\* the characters a project name is typed from
NameChars == {"a", "_"}
Names == {<<>>} \cup UNION {[1..n -> NameChars] : n \in 1..MaxNameLen}
Urls == {"", "odk", "https://odk"}

\* isValidUrl (utilfunctions/urlChecker)
isValidUrl(url) == url = "https://odk"

\* regexForSymbol = /_/g: test() searches from lastIndex, leaves lastIndex
\* behind the match it finds and resets it to 0 when it finds none
MatchesFrom(str, lastIndex) == {i \in 1..Len(str) : i > lastIndex /\ str[i] = "_"}

regexForSymbolTest(str, lastIndex) ==
  IF MatchesFrom(str, lastIndex) = {}
  THEN [found |-> FALSE, lastIndex |-> 0]
  ELSE [found |-> TRUE,
        lastIndex |-> CHOOSE i \in MatchesFrom(str, lastIndex) :
                        \A j \in MatchesFrom(str, lastIndex) : i <= j]

NoErrors == <<>>
SetError(e, key, msg) == [k \in DOMAIN e \cup {key} |-> IF k = key THEN msg ELSE e[k]]

OrganisationRequired(v) == v.organisation_id = 0
UrlRequired(v) == ~v.defaultODKCredentials /\ v.odk_central_url = ""
UrlInvalid(v) ==
  ~v.defaultODKCredentials /\ v.odk_central_url # "" /\ ~isValidUrl(v.odk_central_url)
UserRequired(v) == ~v.defaultODKCredentials /\ v.odk_central_user = ""
\* the password check reached only once the user is given
PasswordRequired_afterUser(v) ==
  ~v.defaultODKCredentials /\ v.odk_central_user # "" /\ v.odk_central_password = ""
PasswordRequired(v) == ~v.defaultODKCredentials /\ v.odk_central_password = ""

\* CreateProjectValidation(values): the error object, and the lastIndex the
\* call leaves in regexForSymbol
CreateProjectValidation(v, lastIndex) ==
  LET e1 == IF OrganisationRequired(v)
            THEN SetError(NoErrors, "organisation_id", "Organization is Required.")
            ELSE NoErrors
      e2 == IF UrlRequired(v)
            THEN SetError(e1, "odk_central_url", "ODK URL is Required.") ELSE e1
      e3 == IF UrlInvalid(v)
            THEN SetError(e2, "odk_central_url", "Invalid URL.") ELSE e2
      e4 == IF UserRequired(v)
            THEN SetError(e3, "odk_central_user", "ODK Central User is Required.")
            ELSE e3
      e5 == IF PasswordRequired(v)
            THEN SetError(e4, "odk_central_password",
                          "ODK Central Password is Required.")
            ELSE e4
      e6 == IF v.name = <<>>
            THEN SetError(e5, "name", "Project Name is Required.") ELSE e5
      tested == v.name # <<>>
      test == regexForSymbolTest(v.name, lastIndex)
      e7 == IF tested /\ test.found
            THEN SetError(e6, "name", "Project Name should not contain _ .") ELSE e6
      e8 == IF v.short_description = ""
            THEN SetError(e7, "short_description", "Short Description is Required.")
            ELSE e7
      e9 == IF v.description = ""
            THEN SetError(e8, "description", "Description is Required.") ELSE e8
  IN [errors |-> e9, lastIndex |-> IF tested THEN test.lastIndex ELSE lastIndex]

\* ------------------------------------------------------ ProjectDetailsForm
\* the organisations the backend lists
Organisations == {[id |-> 1, odk_central_url |-> "https://odk"],
                  [id |-> 2, odk_central_url |-> NULL]}

\* organisationList: {label, value, hasODKCredentials} of each organisation
OrganisationOptions(list) ==
  {[value |-> o.id, hasODKCredentials |-> o.odk_central_url # NULL] : o \in list}

\* useForm(projectDetails, ...): the initial values; an absent
\* defaultODKCredentials reads as false
InitialValues(details) ==
  IF "defaultODKCredentials" \in DOMAIN details THEN details
  ELSE [k \in DOMAIN details \cup {"defaultODKCredentials"} |->
          IF k = "defaultODKCredentials" THEN FALSE ELSE details[k]]

\* a reset that leaves the url the user has typed
ResetCredentials_keepsUrl(v) ==
  IF v.defaultODKCredentials
  THEN [v EXCEPT !.odk_central_user = "", !.odk_central_password = ""]
  ELSE v

\* the effect on values.defaultODKCredentials: reset the user's credentials
ResetCredentials(v) ==
  IF v.defaultODKCredentials
  THEN [v EXCEPT !.odk_central_url = "", !.odk_central_user = "",
                 !.odk_central_password = ""]
  ELSE v

\* a change of the values, followed by the effect if defaultODKCredentials changed
AfterChange(old, new) ==
  IF new.defaultODKCredentials # old.defaultODKCredentials
  THEN ResetCredentials(new) ELSE new

\* the effects of the mount, on the values useForm starts with: the
\* credentials are reset if defaultODKCredentials is on, and
\* defaultODKCredentials is set to false if no organisation is chosen
MountEffects(v) ==
  IF v.organisation_id = 0
  THEN [ResetCredentials(v) EXCEPT !.defaultODKCredentials = FALSE]
  ELSE ResetCredentials(v)

\* the effect on organisationList, an array built anew by every render, so
\* that the effect follows every render: setHasODKCredentials for the
\* organisation chosen, if the list holds it
HasODKCredentialsEffect(list, orgId, current) ==
  IF \E o \in OrganisationOptions(list) : o.value = orgId
  THEN (CHOOSE o \in OrganisationOptions(list) : o.value = orgId).hasODKCredentials
  ELSE current

formFrame == <<generateQrSuccess, generateProjectLog, splitTasksSelection,
               dividedTaskGeojson, taskSplittingGeojson, drawnGeojson,
               isTasksGenerated, canSwitchCreateProjectSteps,
               generateProjectLogIntervalCb, activeTimers, navTo, mounted,
               toggleStatus, taskGenerationStatus, dirty, logInFlight,
               previewInFlight, createInFlight, generations, logRequestedFor,
               lastClear, projectVars, tableVars, organisationVars, mapVars,
               choroplethVars>>

\* the wizard opens on the project details (one visit of the step is
\* followed): useForm takes the stored details, the mount effects run and
\* onFocus() requests the organisations
FormMount ==
  /\ ~formMounted /\ formRoute = "none"
  /\ organisationInFlight < MaxPending
  /\ formMounted' = TRUE
  /\ formRoute' = "/create-project"
  /\ values' = MountEffects(InitialValues(projectDetails))
  /\ errors' = NoErrors
  /\ hasODKCredentials' =
       HasODKCredentialsEffect(organisationList, projectDetails.organisation_id, FALSE)
  /\ organisationInFlight' = organisationInFlight + 1
  /\ lastSubmit' = "none"
  /\ UNCHANGED <<organisationList, regexForSymbolLastIndex, currentStep,
                 projectDetails, formFrame>>

\* the window gets the focus: onFocus() requests the organisations again
onFocus ==
  /\ formMounted
  /\ organisationInFlight < MaxPending
  /\ organisationInFlight' = organisationInFlight + 1
  /\ errors' = NoErrors
  /\ lastSubmit' = "none"
  /\ UNCHANGED <<formMounted, values, hasODKCredentials, organisationList,
                 regexForSymbolLastIndex, currentStep, formRoute, projectDetails,
                 formFrame>>

\* OrganisationService: the list arrives (GetOrganisationList), or the request fails
OrganisationService(ok) ==
  /\ organisationInFlight > 0
  /\ organisationInFlight' = organisationInFlight - 1
  /\ IF ok
     THEN /\ organisationList' = Organisations
          /\ hasODKCredentials' =
               IF formMounted
               THEN HasODKCredentialsEffect(Organisations, values.organisation_id,
                                            hasODKCredentials)
               ELSE hasODKCredentials
     ELSE UNCHANGED <<organisationList, hasODKCredentials>>
  /\ errors' = NoErrors
  /\ lastSubmit' = "none"
  /\ UNCHANGED <<formMounted, values, regexForSymbolLastIndex, currentStep,
                 formRoute, projectDetails, formFrame>>

\* the values each input can be given
FieldValues ==
  [name |-> Names, short_description |-> {"", "s"}, description |-> {"", "d"},
   odk_central_url |-> Urls, odk_central_user |-> {"", "u"},
   odk_central_password |-> {"", "p"}]
CredentialFields == {"odk_central_url", "odk_central_user", "odk_central_password"}

\* handleChange / handleCustomChange of an input; the ODK inputs are rendered
\* only while defaultODKCredentials is off
handleChange(field, value) ==
  /\ formMounted
  /\ field \in CredentialFields => ~values.defaultODKCredentials
  /\ value # values[field]
  /\ values' = [values EXCEPT ![field] = value]
  /\ errors' = NoErrors
  /\ lastSubmit' = "none"
  /\ UNCHANGED <<formMounted, hasODKCredentials, organisationList,
                 organisationInFlight, regexForSymbolLastIndex, currentStep,
                 formRoute, projectDetails, formFrame>>

\* setSelectedOrganisation(orgId), orgId an option of the select
setSelectedOrganisation(orgId) ==
  /\ formMounted
  /\ \E o \in OrganisationOptions(organisationList) : o.value = orgId
  /\ LET selectedOrg == CHOOSE o \in OrganisationOptions(organisationList) :
                          o.value = orgId
         chosen == [values EXCEPT !.organisation_id = orgId]
         new == IF selectedOrg.hasODKCredentials
                THEN [chosen EXCEPT !.defaultODKCredentials = TRUE]
                ELSE chosen
     IN values' = AfterChange(values, new)
  /\ hasODKCredentials' =
       HasODKCredentialsEffect(organisationList, orgId, hasODKCredentials)
  /\ errors' = NoErrors
  /\ lastSubmit' = "none"
  /\ UNCHANGED <<formMounted, organisationList,
                 organisationInFlight, regexForSymbolLastIndex, currentStep,
                 formRoute, projectDetails, formFrame>>

\* the "Use default ODK credentials" checkbox, rendered if hasODKCredentials
onCheckedChange ==
  /\ formMounted
  /\ hasODKCredentials
  /\ values' = AfterChange(values,
                 [values EXCEPT !.defaultODKCredentials = ~values.defaultODKCredentials])
  /\ errors' = NoErrors
  /\ lastSubmit' = "none"
  /\ UNCHANGED <<formMounted, hasODKCredentials, organisationList,
                 organisationInFlight, regexForSymbolLastIndex, currentStep,
                 formRoute, projectDetails, formFrame>>

\* useForm's handleSubmit runs submission only if validation found no error
RunsSubmission(errs) == DOMAIN errs = {}

\* NEXT: handleSubmit validates the values, stores the errors and, if there
\* are none, runs submission(): the details are stored, the step becomes 2
\* and the wizard navigates to /upload-area
handleSubmit ==
  /\ formMounted
  /\ LET result == CreateProjectValidation(values, regexForSymbolLastIndex)
     IN /\ errors' = result.errors
        /\ regexForSymbolLastIndex' = result.lastIndex
        /\ IF RunsSubmission(result.errors)
           THEN /\ projectDetails' = values
                /\ currentStep' = 2
                /\ formRoute' = "/upload-area"
                /\ formMounted' = FALSE
                /\ lastSubmit' = "submitted"
           ELSE /\ lastSubmit' = "blocked"
                /\ UNCHANGED <<projectDetails, currentStep, formRoute, formMounted>>
  /\ UNCHANGED <<values, hasODKCredentials, organisationList,
                 organisationInFlight, formFrame>>

\* ------------------------------------------------------- SubmissionsTable
\* JavaScript numbers: an integer or NaN
NaN == [nan |-> TRUE, n |-> 0]
Num(n) == [nan |-> FALSE, n |-> n]
\* a + b, a > b and a < b of JavaScript: NaN is contagious and compares false
Plus(a, b) == IF a.nan \/ b.nan THEN NaN ELSE Num(a.n + b.n)
Greater(a, b) == ~a.nan /\ ~b.nan /\ a.n > b.n
Less(a, b) == ~a.nan /\ ~b.nan /\ a.n < b.n

Digits == {"0", "1", "2", "3"}
DigitValue(c) == IF c = "0" THEN 0 ELSE IF c = "1" THEN 1 ELSE IF c = "2" THEN 2 ELSE 3
\* what the keyboard can put into the input
InputChars == Digits \cup {"-", ".", "a"}
InputTexts == {<<>>} \cup UNION {[1..n -> InputChars] : n \in 1..MaxInputLen}

\* a valid floating-point number of HTML (exponents left out): an optional
\* '-', then digits, or digits '.' digits, or '.' digits
IsValidFloat(str) ==
  LET body == IF str # <<>> /\ str[1] = "-" THEN Tail(str) ELSE str
  IN /\ body # <<>>
     /\ \A i \in 1..Len(body) : body[i] \in Digits \cup {"."}
     /\ Cardinality({i \in 1..Len(body) : body[i] = "."}) <= 1
     /\ body[Len(body)] \in Digits

\* e.currentTarget.value of <input type="number">: the text if it is a valid
\* number, otherwise ''
InputValue(text) == IF IsValidFloat(text) THEN text ELSE <<>>

\* the value of a string of digits
RECURSIVE DigitsValue(_)
DigitsValue(ds) ==
  IF ds = <<>> THEN 0
  ELSE 10 * DigitsValue(SubSeq(ds, 1, Len(ds) - 1)) + DigitValue(ds[Len(ds)])

\* parseInt(str): an optional sign, then the longest prefix of digits; NaN
\* if there is no digit
parseInt(str) ==
  LET negative == str # <<>> /\ str[1] = "-"
      body == IF negative THEN Tail(str) ELSE str
      stops == {i \in 1..Len(body) : body[i] \notin Digits}
      len == IF stops = {} THEN Len(body)
             ELSE (CHOOSE i \in stops : \A j \in stops : i <= j) - 1
      value == DigitsValue(SubSeq(body, 1, len))
  IN IF len = 0 THEN NaN ELSE Num(IF negative THEN 0 - value ELSE value)

\* initialFilterState; a task id is written as its numeral
initialFilterState ==
  [task_id |-> NULL, submitted_by |-> "", review_state |-> NULL, submitted_date |-> NULL]

\* what the search box can hold
SearchTexts == {"", "a"}
\* the fields the selects and the date picker set, and a value of each
FilterChoices ==
  {[field |-> "task_id", value |-> "1"],
   [field |-> "review_state", value |-> "received"],
   [field |-> "submitted_date", value |-> "2024-01-01"]}

\* submissionTableData before any response: no pagination
NoTableData ==
  [pagination |-> FALSE, page |-> 0, pages |-> 0, filter |-> initialFilterState]

\* submissionTableData?.pagination?.pages as a number (undefined compares as NaN)
PaginationPages(data) == IF data.pagination THEN Num(data.pages) ELSE NaN

\* handleChangePage(e, newPage): the value given to setPaginationPage
handleChangePage(newPage, data, page) ==
  IF \/ Greater(Plus(newPage, Num(1)), PaginationPages(data))
     \/ Less(Plus(newPage, Num(1)), Num(1))
  THEN page
  ELSE Plus(newPage, Num(1))

\* the parameters of a SubmissionTableService call: {page, ...filter}
TableRequest(page, f) == [page |-> page, filter |-> f]

\* the effect on [filter, paginationPage]: a changed page is requested
RequestPage(old, new, f, inFlight) ==
  IF new = old THEN inFlight ELSE Append(inFlight, TableRequest(new, f))

\* clearTimeout that cancels nothing
clearTimeout_cancelsNothing(id, timers) == timers

\* clearTimeout(id): a fired or unknown id cancels nothing
clearTimeout(id, timers) == {t \in timers : t.id # id}

\* the id setTimeout returns: one no pending timeout and no cleanup holds
FreeSearchTimerIds ==
  (1..MaxSearchTimers) \ ({t.id : t \in searchTimers} \cup {timeoutId})
NewSearchTimerId == CHOOSE i \in FreeSearchTimerIds : \A j \in FreeSearchTimerIds : i <= j

\* the debounce effect on [submittedBy]: its cleanup, then setTimeout
DebounceEffect(text) ==
  /\ FreeSearchTimerIds # {}
  /\ searchTimers' = clearTimeout(timeoutId, searchTimers)
                       \cup {[id |-> NewSearchTimerId, text |-> text]}
  /\ timeoutId' = NewSearchTimerId

\* SubmissionsTable mounts on page 1 with the initial filter: the fetch effect
\* requests it, the debounce effect sets its first timeout
TableMount ==
  /\ ~tableMounted
  /\ Len(tableInFlight) < MaxTableInFlight
  /\ tableMounted' = TRUE
  /\ paginationPage' = Num(1)
  /\ filter' = initialFilterState
  /\ submittedBy' = ""
  /\ tableInFlight' = Append(tableInFlight, TableRequest(Num(1), initialFilterState))
  /\ submissionTableDataLoading' = TRUE
  /\ DebounceEffect("")
  /\ UNCHANGED submissionTableData
  /\ UNCHANGED notTableVars

\* unmounting runs the cleanup of the debounce effect
TableUnmount ==
  /\ tableMounted
  /\ tableMounted' = FALSE
  /\ searchTimers' = clearTimeout(timeoutId, searchTimers)
  /\ UNCHANGED <<paginationPage, submissionTableData, submissionTableDataLoading,
                 tableInFlight, filter, submittedBy, timeoutId>>
  /\ UNCHANGED notTableVars

\* setPaginationPage(page) and the fetch effect that follows a change
SetPaginationPage(page) ==
  /\ page # paginationPage => Len(tableInFlight) < MaxTableInFlight
  /\ paginationPage' = page
  /\ tableInFlight' = RequestPage(paginationPage, page, filter, tableInFlight)
  /\ submissionTableDataLoading' = (submissionTableDataLoading \/ page # paginationPage)
  /\ UNCHANGED <<tableMounted, submissionTableData, filter, submittedBy,
                 searchTimers, timeoutId>>

\* a key goes down in the jump-to input, which holds text; the input is
\* rendered once a pagination is stored and is disabled while loading
JumpKeyDown(text) ==
  /\ tableMounted
  /\ submissionTableData.pagination
  /\ ~submissionTableDataLoading
  /\ IF InputValue(text) # <<>>
     THEN SetPaginationPage(
            handleChangePage(Plus(parseInt(InputValue(text)), Num(0 - 1)),
                             submissionTableData, paginationPage))
     ELSE UNCHANGED tableVars
  /\ UNCHANGED notTableVars

\* the next and previous buttons of TablePagination: onPageChange(e, page +- 1),
\* page being pagination.page - 1; disabled while loading or without a
\* next_num / prev_num
PageButton(step) ==
  /\ tableMounted
  /\ submissionTableData.pagination
  /\ ~submissionTableDataLoading
  /\ IF step = 1 THEN submissionTableData.page < submissionTableData.pages
                 ELSE submissionTableData.page > 1
  /\ SetPaginationPage(handleChangePage(Num(submissionTableData.page - 1 + step),
                                        submissionTableData, paginationPage))
  /\ UNCHANGED notTableVars

\* setFilter(f) stores a new object, so both effects on filter run: the fetch
\* effect requests the page of this render with the new filter, the next
\* effect calls setPaginationPage(1), and if that changes the page the fetch
\* effect of the following render requests page 1
setFilter(f) ==
  /\ Len(tableInFlight) + (IF paginationPage = Num(1) THEN 1 ELSE 2) <= MaxTableInFlight
  /\ filter' = f
  /\ paginationPage' = Num(1)
  /\ tableInFlight' = RequestPage(paginationPage, Num(1), f,
                                  Append(tableInFlight, TableRequest(paginationPage, f)))
  /\ submissionTableDataLoading' = TRUE
  /\ UNCHANGED <<tableMounted, submissionTableData>>

\* a select or the date picker of the filter menu reports a changed value
\* and sets its field
onValueChange(choice) ==
  /\ tableMounted
  /\ filter[choice.field] # choice.value
  /\ setFilter([filter EXCEPT ![choice.field] = choice.value])
  /\ UNCHANGED <<submittedBy, searchTimers, timeoutId>>
  /\ UNCHANGED notTableVars

\* the Reset Filter button, disabled while the table loads
clearFilters ==
  /\ tableMounted
  /\ ~submissionTableDataLoading
  /\ setFilter(initialFilterState)
  /\ UNCHANGED <<submittedBy, searchTimers, timeoutId>>
  /\ UNCHANGED notTableVars

\* onChange of the search box: setSubmittedBy(text), then the debounce effect
onSearchChange(text) ==
  /\ tableMounted
  /\ text # submittedBy
  /\ submittedBy' = text
  /\ DebounceEffect(text)
  /\ UNCHANGED <<tableMounted, paginationPage, submissionTableData,
                 submissionTableDataLoading, tableInFlight, filter>>
  /\ UNCHANGED notTableVars

\* a timeout fires after its 500 ms: setFilter with the text of its render;
\* a state update of an unmounted component does nothing
SearchTimeout ==
  \E t \in searchTimers :
    /\ searchTimers' = searchTimers \ {t}
    /\ IF tableMounted
       THEN setFilter([filter EXCEPT !.submitted_by = t.text])
       ELSE UNCHANGED <<tableMounted, paginationPage, submissionTableData,
                        submissionTableDataLoading, tableInFlight, filter>>
    /\ UNCHANGED <<submittedBy, timeoutId>>
    /\ UNCHANGED notTableVars

Remove(seq, i) == SubSeq(seq, 1, i - 1) \o SubSeq(seq, i + 1, Len(seq))

\* SubmissionTableService: an outstanding call ends; the backend, which
\* holds pages pages for the call's filter, answers a page it has and fails
\* otherwise
SubmissionTableService(i, pages) ==
  /\ i \in 1..Len(tableInFlight)
  /\ tableInFlight' = Remove(tableInFlight, i)
  /\ submissionTableDataLoading' = FALSE
  /\ LET page == tableInFlight[i].page
     IN IF ~page.nan /\ page.n \in 1..pages
        THEN submissionTableData' =
               [pagination |-> TRUE, page |-> page.n, pages |-> pages,
                filter |-> tableInFlight[i].filter]
        ELSE UNCHANGED submissionTableData
  /\ UNCHANGED <<tableMounted, paginationPage, filter, submittedBy, searchTimers,
                 timeoutId>>
  /\ UNCHANGED notTableVars

\* ------------------------------------------------------ views/Organisation
VERIFIED == "/organisation/"
UNAPPROVED == "/organisation/unapproved/"

\* the effect on [verifiedTab]: the endpoint OrganisationDataService is given
OrganisationEndpoint(verified) == IF verified THEN VERIFIED ELSE UNAPPROVED

\* the view mounts: the state is initial and the effect fetches the verified list
OrganisationMount ==
  /\ ~orgMounted
  /\ Len(orgInFlight) < MaxOrgInFlight
  /\ orgMounted' = TRUE
  /\ activeTab' = 0
  /\ verifiedTab' = TRUE
  /\ myOrgsLoaded' = FALSE
  /\ myOrgDispatches' = 0
  /\ orgInFlight' = Append(orgInFlight, OrganisationEndpoint(TRUE))
  /\ UNCHANGED <<organisationData, myOrgInFlight>>
  /\ UNCHANGED notOrganisationVars

OrganisationUnmount ==
  /\ orgMounted
  /\ orgMounted' = FALSE
  /\ UNCHANGED <<activeTab, verifiedTab, myOrgsLoaded, organisationData,
                 orgInFlight, myOrgInFlight, myOrgDispatches>>
  /\ UNCHANGED notOrganisationVars

\* setVerifiedTab(verified), and the effect if the tab changed
setVerifiedTab(verified) ==
  /\ orgMounted
  /\ verified # verifiedTab => Len(orgInFlight) < MaxOrgInFlight
  /\ verifiedTab' = verified
  /\ orgInFlight' = IF verified # verifiedTab
                    THEN Append(orgInFlight, OrganisationEndpoint(verified))
                    ELSE orgInFlight
  /\ UNCHANGED <<orgMounted, activeTab, myOrgsLoaded, organisationData,
                 myOrgInFlight, myOrgDispatches>>
  /\ UNCHANGED notOrganisationVars

\* the 'All Organizations' tab
setActiveTab ==
  /\ orgMounted
  /\ activeTab' = 0
  /\ UNCHANGED <<orgMounted, verifiedTab, myOrgsLoaded, organisationData,
                 orgInFlight, myOrgInFlight, myOrgDispatches>>
  /\ UNCHANGED notOrganisationVars

\* loadMyOrganisations that dispatches on every click
DispatchesMyOrganisations_always(loaded) == TRUE

\* loadMyOrganisations: whether it dispatches MyOrganisationDataService
DispatchesMyOrganisations(loaded) == ~loaded

\* the 'My Organizations' tab
loadMyOrganisations ==
  /\ orgMounted
  /\ IF DispatchesMyOrganisations(myOrgsLoaded)
     THEN /\ myOrgInFlight < MaxPending
          /\ myOrgInFlight' = myOrgInFlight + 1
          /\ myOrgDispatches' = myOrgDispatches + 1
          /\ myOrgsLoaded' = TRUE
     ELSE UNCHANGED <<myOrgInFlight, myOrgDispatches, myOrgsLoaded>>
  /\ activeTab' = 1
  /\ UNCHANGED <<orgMounted, verifiedTab, organisationData, orgInFlight>>
  /\ UNCHANGED notOrganisationVars

\* OrganisationDataService: an outstanding call ends and, if the request
\* succeeded, its list is stored
OrganisationDataService(i, ok) ==
  /\ i \in 1..Len(orgInFlight)
  /\ orgInFlight' = Remove(orgInFlight, i)
  /\ organisationData' = IF ok THEN orgInFlight[i] ELSE organisationData
  /\ UNCHANGED <<orgMounted, activeTab, verifiedTab, myOrgsLoaded, myOrgInFlight,
                 myOrgDispatches>>
  /\ UNCHANGED notOrganisationVars

MyOrganisationDataService ==
  /\ myOrgInFlight > 0
  /\ myOrgInFlight' = myOrgInFlight - 1
  /\ UNCHANGED <<orgMounted, activeTab, verifiedTab, myOrgsLoaded,
                 organisationData, orgInFlight, myOrgDispatches>>
  /\ UNCHANGED notOrganisationVars

\* ------------------------------------------------------------ VectorLayer
\* the props of an instance: geojson is 0 (none, or not valid) or names a
\* geometry; the three callbacks are given or not
VectorLayerProps ==
  [geojson : 0..2, onDraw : BOOLEAN, onModify : BOOLEAN, hoverEffect : BOOLEAN]
NoProps == [geojson |-> 0, onDraw |-> FALSE, onModify |-> FALSE, hoverEffect |-> FALSE]

\* the layer the geojson effect stores with setVectorLayer
GeojsonLayer(geojson) == geojson

\* the 'click' listeners after the geojson effect has run again: its cleanup
\* calls map.un with a new function, which removes nothing
ClickListenersAfter(listeners, geojson, rerun) ==
  IF rerun /\ geojson # 0 THEN listeners + 1 ELSE listeners

\* the Modify effect: what it adds to the map
ModifyEffect(layer, onModify) ==
  IF layer # 0 /\ onModify THEN {"modify", "select"} ELSE {}

\* the Draw effect: what it adds to the map
DrawEffect(onDraw) == IF onDraw THEN {"draw"} ELSE {}

\* the hover effect runs when vectorLayer changes: whether pointerMovefn is
\* a listener afterwards
HoverEffect(layer, hoverEffect) == layer # 0 /\ hoverEffect

\* the instance mounts on the map: every effect runs, then those that depend
\* on vectorLayer run again with the layer the geojson effect has stored
VectorLayerMount(props) ==
  /\ ~vlMounted
  /\ cursorListeners < MaxMapListeners
  /\ clickListeners < MaxMapListeners
  /\ vlMounted' = TRUE
  /\ vlProps' = props
  /\ vectorLayer' = GeojsonLayer(props.geojson)
  /\ clickListeners' = ClickListenersAfter(clickListeners, props.geojson, TRUE)
  /\ cursorListeners' = cursorListeners + 1
  /\ mapInteractions' =
       ModifyEffect(vectorLayer', props.onModify) \cup DrawEffect(props.onDraw)
  /\ hoverListener' = HoverEffect(vectorLayer', props.hoverEffect)
  /\ UNCHANGED notMapVars

\* the parent renders the instance with other props: the effects whose
\* dependencies have changed clean up and run again
VectorLayerPropsChange(props) ==
  /\ vlMounted
  /\ props # vlProps
  /\ clickListeners < MaxMapListeners
  /\ vlProps' = props
  /\ vectorLayer' = IF props.geojson # vlProps.geojson
                    THEN GeojsonLayer(props.geojson) ELSE vectorLayer
  /\ clickListeners' = ClickListenersAfter(clickListeners, props.geojson,
                                           props.geojson # vlProps.geojson)
  /\ mapInteractions' =
       ModifyEffect(vectorLayer', props.onModify) \cup DrawEffect(props.onDraw)
  /\ hoverListener' = IF vectorLayer' # vectorLayer
                      THEN HoverEffect(vectorLayer', props.hoverEffect)
                      ELSE hoverListener
  /\ UNCHANGED <<vlMounted, cursorListeners>>
  /\ UNCHANGED notMapVars

\* the instance unmounts: every cleanup runs; the cleanup of the cursor
\* effect is map.setTarget(null), those of the geojson effect and of the
\* click listener are setVectorLayer(null) and map.un('click', () => {})
VectorLayerUnmount ==
  /\ vlMounted
  /\ vlMounted' = FALSE
  /\ vlProps' = NoProps
  /\ vectorLayer' = 0
  /\ mapInteractions' = {}
  /\ hoverListener' = FALSE
  /\ UNCHANGED <<clickListeners, cursorListeners>>
  /\ UNCHANGED notMapVars

\* ----------------------------------------------------- TaskSubmissionsMap
\* the count of a feature no task belongs to: undefined
UNDEFINED == -1
Counts == 0..MaxCount
TaskInfos == UNION {[1..n -> Counts] : n \in 0..MaxTasks}

\* the keys of colorCodes, in their order
colorCodesKeys == <<"#A9D2F3", "#7CB2E8", "#4A90D9", "#0062AC">>
noOfRange == 4

RECURSIVE MathMax(_)
MathMax(data) ==
  IF Len(data) = 1 THEN data[1]
  ELSE LET rest == MathMax(Tail(data))
       IN IF data[1] >= rest THEN data[1] ELSE rest

\* the upper end of the binning that is 10 whatever the counts are
MaxValue_alwaysTen(maxVal) == 10

\* maxValue of colorRange
MaxValue(maxVal) == IF maxVal <= noOfRange THEN 10 ELSE maxVal

\* Math.round of the number quarters / 4 (not negative): halves go up
MathRound(quarters) == (quarters + 2) \div 4

\* currentValue before the bucket of this index (0-based), in quarters:
\* minValue + index * interval with minValue 1 and interval
\* (maxValue - 1) / noOfRange; every such number is a multiple of 1/4, which
\* floating-point addition keeps exact
CurrentValue(maxValue, index) == 4 + index * (maxValue - 1)

\* colorRange(data, '4')
colorRange(data) ==
  IF Len(data) = 0 THEN <<>>
  ELSE LET maxValue == MaxValue(MathMax(data))
       IN <<[min |-> 0, max |-> 0, color |-> "#FF4538"]>>
          \o [index \in 1..noOfRange |->
                [min |-> MathRound(CurrentValue(maxValue, index - 1)),
                 max |-> MathRound(CurrentValue(maxValue, index)),
                 color |-> colorCodesKeys[index]]]

\* the buckets of colorCodesOutput that hold the value; a comparison with
\* undefined is false
Matching(value, colorCodesOutput) ==
  {i \in 1..Len(colorCodesOutput) :
     /\ value # UNDEFINED
     /\ colorCodesOutput[i].min <= value
     /\ colorCodesOutput[i].max >= value}

\* getChoroplethColor(value, colorCodesOutput): the map runs over every
\* bucket and the last one that holds the value sets toReturn
getChoroplethColor(value, colorCodesOutput) ==
  LET matching == Matching(value, colorCodesOutput)
  IN IF matching = {} THEN "#FF4538"
     ELSE colorCodesOutput[CHOOSE i \in matching : \A j \in matching : j <= i].color

\* the store's taskInfo changes and the component renders: the tasks are
\* loaded, or the count of one of them has changed
SetTaskInfo(data) ==
  /\ data # taskInfo
  /\ \/ taskInfo = <<>>
     \/ /\ Len(data) = Len(taskInfo)
        /\ Cardinality({i \in 1..Len(data) : data[i] # taskInfo[i]}) = 1
  /\ taskInfo' = data
  /\ legendColorArray' = colorRange(data)
  /\ featureCount' = UNDEFINED
  /\ choroplethColor' = NULL
  /\ UNCHANGED notChoroplethVars

\* setChoropleth styles a feature: the count of its task, undefined if no
\* task has its uid
setChoropleth(count) ==
  /\ count = UNDEFINED \/ \E i \in 1..Len(taskInfo) : taskInfo[i] = count
  /\ featureCount' = count
  /\ choroplethColor' = getChoroplethColor(count, legendColorArray)
  /\ UNCHANGED <<taskInfo, legendColorArray>>
  /\ UNCHANGED notChoroplethVars

\* ------------------------------------------------------ the specification
\* initialState of the slice, SplitTasks not mounted, nothing in flight
Init ==
  /\ generateQrSuccess = 0
  /\ generateProjectLog = NULL
  /\ splitTasksSelection = NULL
  /\ dividedTaskGeojson = NULL
  /\ taskSplittingGeojson = NULL
  /\ drawnGeojson = NULL
  /\ isTasksGenerated = NoTasksGenerated
  /\ canSwitchCreateProjectSteps = FALSE
  /\ projectDetails = InitialProjectDetails
  /\ generateProjectLogIntervalCb = 0
  /\ activeTimers = {}
  /\ navTo = "none"
  /\ mounted = FALSE
  /\ toggleStatus = FALSE
  /\ taskGenerationStatus = FALSE
  /\ dirty = Clean
  /\ logInFlight = 0
  /\ previewInFlight = [k \in {DIVIDE_ON_SQUARE, TASK_SPLITTING_ALGORITHM} |-> 0]
  /\ createInFlight = 0
  /\ generations = 0
  /\ logRequestedFor = 0
  /\ lastClear = NoClear
  /\ calls = [c \in CallIds |-> FreeCall]
  /\ downloadProjectFormLoading = [type |-> NULL, loading |-> FALSE]
  /\ downloadDataExtractLoading = FALSE
  /\ downloadTileLoading = [type |-> NULL, loading |-> FALSE]
  \* ProjectSlice: the details count as loading until a ProjectById has ended
  /\ projectDetailsLoading = TRUE
  /\ projectTaskBoundries = NULL
  /\ projectInfo = NULL
  /\ tilesListLoading = FALSE
  /\ tilesList = NULL
  /\ generateProjectTilesLoading = FALSE
  /\ projectDashboardLoading = FALSE
  /\ projectDashboardDetail = NULL
  /\ lastIssued = 0
  /\ formMounted = FALSE
  /\ values = InitialValues(InitialProjectDetails)
  /\ errors = NoErrors
  /\ hasODKCredentials = FALSE
  /\ organisationList = {}
  /\ organisationInFlight = 0
  /\ regexForSymbolLastIndex = 0
  /\ currentStep = 1
  /\ formRoute = "none"
  /\ lastSubmit = "none"
  /\ tableMounted = FALSE
  /\ paginationPage = Num(1)
  /\ submissionTableData = NoTableData
  /\ submissionTableDataLoading = FALSE
  /\ tableInFlight = <<>>
  /\ filter = initialFilterState
  /\ submittedBy = ""
  /\ searchTimers = {}
  /\ timeoutId = 0
  /\ orgMounted = FALSE
  /\ activeTab = 0
  /\ verifiedTab = TRUE
  /\ myOrgsLoaded = FALSE
  /\ organisationData = NULL
  /\ orgInFlight = <<>>
  /\ myOrgInFlight = 0
  /\ myOrgDispatches = 0
  /\ vlMounted = FALSE
  /\ vlProps = NoProps
  /\ vectorLayer = 0
  /\ mapInteractions = {}
  /\ clickListeners = 0
  /\ cursorListeners = 0
  /\ hoverListener = FALSE
  /\ taskInfo = <<>>
  /\ legendColorArray = <<>>
  /\ featureCount = UNDEFINED
  /\ choroplethColor = NULL

Next ==
  \/ Mount
  \/ RunEffects
  \/ Previous
  \/ Unmount
  \/ \E value \in SplitTypes : SelectSplitType(value)
  \/ generateTaskBasedOnSelection
  \/ \E ok \in BOOLEAN : GetDividedTaskFromGeojson(ok)
  \/ \E ok \in BOOLEAN : TaskSplittingPreviewService(ok)
  \/ submission
  \/ \E outcome \in {"error", "SUCCESS", "PENDING"} : CreateProjectService(outcome)
  \/ \E t \in [id : 1..MaxTimers, uuid : 1..MaxGenerations] : IntervalTick(t)
  \/ \E status \in LogStatuses : GenerateProjectLog(status)
  \/ GenerateProjectLogFails

Spec == Init /\ [][Next]_vars

\* api/Project.js: any thunk may be called at any time, calls may overlap
NextProject ==
  \/ \E c \in CallIds, payload \in FormPayloads : DownloadProjectForm(c, payload)
  \/ \E c \in CallIds, ok \in BOOLEAN : fetchProjectForm(c, ok)
  \/ \E c \in CallIds : DownloadDataExtract(c)
  \/ \E c \in CallIds, ok \in BOOLEAN : getDownloadExtract(c, ok)
  \/ \E c \in CallIds, payload \in TilePayloads : DownloadTile(c, payload)
  \/ \E c \in CallIds, ok \in BOOLEAN, hasHeader \in BOOLEAN :
       getDownloadTile(c, ok, hasHeader)
  \/ \E c \in CallIds, projectId \in ProjectIds : ProjectById(c, projectId)
  \/ \E c \in CallIds, ok \in BOOLEAN, hasPoints \in BOOLEAN :
       fetchProjectById(c, ok, hasPoints)
  \/ \E c \in CallIds, projectId \in ProjectIds : GetTilesList(c, projectId)
  \/ \E c \in CallIds, ok \in BOOLEAN : fetchTilesList(c, ok)
  \/ \E c \in CallIds, projectId \in ProjectIds : GenerateProjectTiles(c, projectId)
  \/ \E c \in CallIds, ok \in BOOLEAN, d \in CallIds : generateProjectTiles(c, ok, d)
  \/ \E c \in CallIds, projectId \in ProjectIds : GetProjectDashboard(c, projectId)
  \/ \E c \in CallIds, ok \in BOOLEAN : getProjectDashboard(c, ok)

SpecProject == Init /\ [][NextProject]_vars

\* ProjectDetailsForm: the user edits, selects, toggles and submits
NextForm ==
  \/ FormMount
  \/ onFocus
  \/ \E ok \in BOOLEAN : OrganisationService(ok)
  \/ \E field \in DOMAIN FieldValues :
       \E value \in FieldValues[field] : handleChange(field, value)
  \/ \E orgId \in {o.id : o \in Organisations} : setSelectedOrganisation(orgId)
  \/ onCheckedChange
  \/ handleSubmit

SpecForm == Init /\ [][NextForm]_vars

\* SubmissionsTable: the user pages and jumps, the backend answers
NextTable ==
  \/ TableMount
  \/ TableUnmount
  \/ \E text \in InputTexts : JumpKeyDown(text)
  \/ \E step \in {0 - 1, 1} : PageButton(step)
  \/ SearchTimeout
  \/ \E i \in 1..MaxTableInFlight, pages \in 0..MaxPages : SubmissionTableService(i, pages)

SpecTable == Init /\ [][NextTable]_vars

\* SubmissionsTable: the user filters, searches and pages, the backend answers
NextFilter ==
  \/ TableMount
  \/ TableUnmount
  \/ \E choice \in FilterChoices : onValueChange(choice)
  \/ clearFilters
  \/ \E text \in SearchTexts : onSearchChange(text)
  \/ SearchTimeout
  \/ \E step \in {0 - 1, 1} : PageButton(step)
  \/ \E i \in 1..MaxTableInFlight, pages \in 0..MaxFilterPages : SubmissionTableService(i, pages)

SpecFilter == Init /\ [][NextFilter]_vars

\* SubmissionsTable: the user types in the search box and resets the filter
NextSearch ==
  \/ TableMount
  \/ TableUnmount
  \/ \E text \in SearchTexts : onSearchChange(text)
  \/ SearchTimeout
  \/ clearFilters
  \/ \E i \in 1..MaxTableInFlight, pages \in 0..MaxFilterPages : SubmissionTableService(i, pages)

SpecSearch == Init /\ [][NextSearch]_vars

\* the Organisation view: tabs are switched, the backend answers
NextOrganisation ==
  \/ OrganisationMount
  \/ OrganisationUnmount
  \/ \E verified \in BOOLEAN : setVerifiedTab(verified)
  \/ setActiveTab
  \/ loadMyOrganisations
  \/ \E i \in 1..MaxOrgInFlight, ok \in BOOLEAN : OrganisationDataService(i, ok)
  \/ MyOrganisationDataService

SpecOrganisation == Init /\ [][NextOrganisation]_vars

\* one VectorLayer on a map: it mounts, its props change, it unmounts
NextMap ==
  \/ \E props \in VectorLayerProps : VectorLayerMount(props)
  \/ \E props \in VectorLayerProps : VectorLayerPropsChange(props)
  \/ VectorLayerUnmount

SpecMap == Init /\ [][NextMap]_vars

\* the choropleth of TaskSubmissionsMap: counts arrive, features are styled
NextChoropleth ==
  \/ \E data \in TaskInfos : SetTaskInfo(data)
  \/ \E count \in Counts \cup {UNDEFINED} : setChoropleth(count)

SpecChoropleth == Init /\ [][NextChoropleth]_vars

\* overlapping fetches: ProjectById calls and the lists of the Organisation view
NextFetch ==
  \/ \E c \in CallIds, projectId \in ProjectIds : ProjectById(c, projectId)
  \/ \E c \in CallIds, ok \in BOOLEAN, hasPoints \in BOOLEAN :
       fetchProjectById(c, ok, hasPoints)
  \/ OrganisationMount
  \/ \E verified \in BOOLEAN : setVerifiedTab(verified)
  \/ \E i \in 1..MaxOrgInFlight, ok \in BOOLEAN : OrganisationDataService(i, ok)

SpecFetch == Init /\ [][NextFetch]_vars

\* calls of ProjectById and their requests
NextProjectById ==
  \/ \E c \in CallIds, projectId \in ProjectIds : ProjectById(c, projectId)
  \/ \E c \in CallIds, ok \in BOOLEAN, hasPoints \in BOOLEAN :
       fetchProjectById(c, ok, hasPoints)

SpecProjectById == Init /\ [][NextProjectById]_vars

\* ------------------------------------------------ the polling, as observed
\* the state of the polling state machine: the status of the stored log
PollState ==
  IF generateProjectLog = NULL THEN "idle"
  ELSE IF generateProjectLog = "PENDING" THEN "pending"
  ELSE IF generateProjectLog = "SUCCESS" THEN "success"
  ELSE "failed"

StateOfStatus(status) ==
  IF status = "PENDING" THEN "pending"
  ELSE IF status = "SUCCESS" THEN "success"
  ELSE "failed"

\* the second log effect is about to run on a stored log of this status
LogEffectRunsOn(status) ==
  /\ mounted /\ navTo = "none"
  /\ dirty.qr \/ dirty.log
  /\ generateQrSuccess # 0
  /\ generateProjectLog = status

\* SplitTasks has navigated to the project and reset the transient state
NavigatedAndCleared ==
  /\ navTo = "project_details"
  /\ generateProjectLog = NULL
  /\ generateQrSuccess = 0
  /\ projectDetails = ClearedProjectDetails
  /\ canSwitchCreateProjectSteps = FALSE

ListedTransitions ==
  {<<"idle", "pending">>, <<"pending", "pending">>,
   <<"pending", "success">>, <<"pending", "failed">>}

C3_EveryGenerationIsPolled ==
  (mounted /\ Settled /\ generateQrSuccess # 0)
    => logRequestedFor = generateQrSuccess

\* C4: at most one polling interval is active, and it is the handle's.
C4_AtMostOneInterval ==
  /\ Cardinality(activeTimers) <= 1
  /\ TimerIds \subseteq {generateProjectLogIntervalCb}

\* an interval runs again after an unmount and a remount, requests in flight
C4_Witness ==
  /\ Cardinality(activeTimers) = 1
  /\ logInFlight = MaxLogInFlight
  /\ generations = MaxGenerations

\* C5: after the unmount cleanup no interval is active, the handle is null
\* and generateProjectLog is null.
C5_UnmountClears ==
  [][Unmount => /\ activeTimers' = {}
                /\ generateProjectLogIntervalCb' = 0
                /\ generateProjectLog' = NULL]_vars

\* the cleanup has stopped a running interval with a log request in flight
C5_Witness ==
  /\ ~mounted
  /\ lastClear = [calls |-> 1, stopped |-> 1]
  /\ logInFlight > 0
  /\ generateProjectLogIntervalCb = 0
  /\ generateProjectLog = NULL

C7_ChooseAreaKeepsDividedNull ==
  (mounted /\ Settled /\ splitTasksSelection = CHOOSE_AREA_AS_TASK)
    => dividedTaskGeojson = NULL

\* C8 as stated: every change of the selection to a split type leaves both
\* isTasksGenerated flags false.
C8_SelectionChangeResetsFlags ==
  [][(splitTasksSelection' # splitTasksSelection /\ splitTasksSelection' \in SplitTypes)
       => isTasksGenerated' = NoTasksGenerated]_vars

\* ------------------------------------------------------------ the downloads
\* C9 as stated: a finished call of a download thunk has dispatched its
\* loading flag as true once and then as false exactly once.
DownloadThunks == {"DownloadProjectForm", "DownloadDataExtract", "DownloadTile"}

C9_LoadingFalseExactlyOnce ==
  \A c \in CallIds :
    (calls[c].thunk \in DownloadThunks /\ calls[c].pc = "done")
      => calls[c].dispatched = <<TRUE, FALSE>>

\* ------------------------------------------------------ overlapping fetches
\* C13: nothing cancels a request. A ProjectById call that is outstanding is
\* changed only by its own responses, and when its last response arrives the
\* store holds its project, whichever call was started last; an outstanding
\* organisation-list request is removed only by its own response, and a
\* successful response stores its list, whichever tab is selected by then.
C13_LastResponseWins ==
  [][/\ \A c \in CallIds :
          (calls[c].thunk = "ProjectById" /\ Outstanding(c) /\ calls'[c] # calls[c])
            => /\ calls'[c].thunk = "ProjectById"
               /\ calls'[c].payload = calls[c].payload
               /\ calls'[c].pc \in {NextRequest(calls[c].pc), "done"}
               /\ calls'[c].dispatched = <<TRUE, FALSE>>
                    => /\ projectInfo' = calls[c].payload
                       /\ projectTaskBoundries' = calls[c].payload
     /\ \/ orgInFlight' = orgInFlight
        \/ \E endpoint \in {VERIFIED, UNAPPROVED} :
             orgInFlight' = Append(orgInFlight, endpoint)
        \/ \E i \in 1..Len(orgInFlight) :
             /\ orgInFlight' = Remove(orgInFlight, i)
             /\ organisationData' \in {organisationData, orgInFlight[i]}
     /\ \A i \in 1..Len(orgInFlight) :
          OrganisationDataService(i, TRUE) => organisationData' = orgInFlight[i]]_vars

\* both ProjectById calls have completed, the one started first for another
\* project completed last and the store holds its project; the unapproved
\* tab is selected and the list stored is the verified one, whose response
\* arrived last
C13_OlderRequestAnsweredLast ==
  /\ \E c \in CallIds :
       /\ lastIssued \in CallIds \ {c}
       /\ calls[c].thunk = "ProjectById" /\ calls[lastIssued].thunk = "ProjectById"
       /\ calls[c].dispatched = <<TRUE, FALSE>>
       /\ calls[lastIssued].dispatched = <<TRUE, FALSE>>
       /\ calls[c].payload # calls[lastIssued].payload
       /\ projectInfo = calls[c].payload
  /\ orgInFlight = <<>>
  /\ ~verifiedTab
  /\ organisationData = VERIFIED

\* --------------------------------------------------------- loading flags
\* the loading flag of a thunk, as the store holds it
LoadingFlag(thunk) ==
  CASE thunk = "DownloadProjectForm" -> downloadProjectFormLoading.loading
    [] thunk = "DownloadDataExtract" -> downloadDataExtractLoading
    [] thunk = "DownloadTile" -> downloadTileLoading.loading
    [] thunk = "ProjectById" -> projectDetailsLoading
    [] thunk = "GetTilesList" -> tilesListLoading
    [] thunk = "GenerateProjectTiles" -> generateProjectTilesLoading
    [] thunk = "GetProjectDashboard" -> projectDashboardLoading

\* C14 as stated: while a call of a thunk is outstanding, the loading flag
\* of that thunk is true.
C14_LoadingWhileOutstanding ==
  \A c \in CallIds : Outstanding(c) => LoadingFlag(calls[c].thunk)

\* C15 as stated: in the state a call of a thunk finishes in, whether its
\* request succeeded or failed, the loading flag of that thunk is false.
C15_FinishedMeansNotLoading ==
  [][\A c \in CallIds :
       (Outstanding(c) /\ calls'[c].pc = "done") => ~LoadingFlag(calls[c].thunk)']_vars

\* ------------------------------------------------------- the details form
ODKFields ==
  {"organisation_id", "odk_central_url", "odk_central_user", "odk_central_password"}

\* default credentials off, organisation and the three ODK credentials missing
MissingCredentials(v) ==
  /\ ~v.defaultODKCredentials
  /\ v.organisation_id = 0
  /\ v.odk_central_url = ""
  /\ v.odk_central_user = ""
  /\ v.odk_central_password = ""

\* C10: when handleSubmit validates values with defaultODKCredentials false
\* and organisation_id, odk_central_url, odk_central_user and
\* odk_central_password missing, the errors hold an entry for each of the
\* four fields; and whenever the errors are not empty, submission does not
\* run: the stored details, the step and the route stay, the form stays.
C10_MissingCredentialsBlockSubmit ==
  [][handleSubmit =>
       /\ MissingCredentials(values) => ODKFields \subseteq DOMAIN errors'
       /\ DOMAIN errors' # {}
            => /\ lastSubmit' = "blocked"
               /\ projectDetails' = projectDetails
               /\ currentStep' = currentStep
               /\ formRoute' = formRoute
               /\ formMounted']_vars

\* a submit of a named, described project without organisation and
\* credentials has been blocked with the four errors only
C10_Witness ==
  /\ lastSubmit = "blocked"
  /\ MissingCredentials(values)
  /\ DOMAIN errors = ODKFields
  /\ currentStep = 1

\* the name holds the character regexForSymbol looks for
ContainsUnderscore(name) == \E i \in 1..Len(name) : name[i] = "_"

\* C11 as stated: every call of CreateProjectValidation returns the errors
\* that a first call with the same values returns, whatever calls came
\* before; in particular a name containing '_' gets the error
\* 'Project Name should not contain _ .' on every call.
C11_ValidationIsPure ==
  [][handleSubmit =>
       /\ errors' = CreateProjectValidation(values, 0).errors
       /\ ContainsUnderscore(values.name)
            => /\ "name" \in DOMAIN errors'
               /\ errors'["name"] = "Project Name should not contain _ ."]_vars

\* ------------------------------------------------------ the jump to a page
\* the text is the decimal numeral of a whole number
IsNumeral(text) == text # <<>> /\ \A i \in 1..Len(text) : text[i] \in Digits

\* a page number inside the range the stored pagination reports
InPageRange(page) ==
  /\ submissionTableData.pagination
  /\ ~page.nan
  /\ page.n \in 1..submissionTableData.pages

\* C12 as stated: a key press in the jump-to input either leaves
\* paginationPage unchanged or sets it to a page in 1..pagination.pages; a
\* numeral of a page in that range sets exactly that page, and a numeral
\* outside it, like every text that is no number, leaves the page unchanged.
C12_JumpClampsOrNoOp ==
  [][\A text \in InputTexts :
       JumpKeyDown(text) =>
         /\ paginationPage' = paginationPage \/ InPageRange(paginationPage')
         /\ (IsNumeral(text) /\ InPageRange(Num(DigitsValue(text))))
              => paginationPage' = Num(DigitsValue(text))
         /\ (IsNumeral(text) /\ ~InPageRange(Num(DigitsValue(text))))
              => paginationPage' = paginationPage
         /\ ~IsValidFloat(text) => paginationPage' = paginationPage]_vars

\* ------------------------------------------------------------- no retry
Timers == [id : 1..MaxTimers, uuid : 1..MaxGenerations]

\* C16 as stated: after a failed log request, and after a FAILED status,
\* nothing requests the log again until the user acts: the failure of a log
\* request leaves no interval running, and no tick of an interval requests
\* the log while FAILED is stored.
C16_NoRequestAfterFailure ==
  [][/\ GenerateProjectLogFails => activeTimers' = {}
     /\ \A t \in Timers : IntervalTick(t) => generateProjectLog # "FAILED"]_vars

\* ------------------------------------------------------- what is submitted
SplitParameters == {"task_num_buildings", "task_split_dimension"}

\* C17: the projectData that submission() builds holds the project's
\* metadata, as outline (and as the file sent with it) dividedTaskGeojson if
\* there is one and drawnGeojson otherwise, and exactly one of the two split
\* parameters: task_num_buildings if and only if the selection is
\* task_splitting_algorithm; and submission() adds exactly one
\* CreateProjectService call to those outstanding.
C17_SubmissionPayload ==
  [][submission =>
       LET data == ProjectData(projectDetails, splitTasksSelection,
                               dividedTaskGeojson, drawnGeojson)
       IN /\ data.project_info.name = projectDetails.name
          /\ data.project_info.description = projectDetails.description
          /\ dividedTaskGeojson # NULL => data.outline_geojson = dividedTaskGeojson
          /\ dividedTaskGeojson = NULL => data.outline_geojson = drawnGeojson
          /\ data.taskAreaGeojsonFile = data.outline_geojson
          /\ Cardinality(data.keys \cap SplitParameters) = 1
          /\ "task_num_buildings" \in data.keys
               <=> splitTasksSelection = TASK_SPLITTING_ALGORITHM
          /\ createInFlight' = createInFlight + 1]_vars

\* a project split by the algorithm has been submitted and is being created
C17_Witness ==
  /\ mounted
  /\ splitTasksSelection = TASK_SPLITTING_ALGORITHM
  /\ dividedTaskGeojson = "algorithm"
  /\ canSwitchCreateProjectSteps
  /\ createInFlight = 1

\* ------------------------------------------------------ what is generated
\* C18: generate adds one request to those outstanding at the endpoint of the
\* selection, preview-split-by-square for divide_on_square and task-split
\* for task_splitting_algorithm, and none while the selection is
\* choose_area_as_task; whatever dataExtractWays is, the request holds an
\* extract file only if dataExtractWays is not osm_data_extract; and the
\* geometry of a successful response is stored in dividedTaskGeojson.
C18_GenerateMatchesSelection ==
  [][/\ generateTaskBasedOnSelection
          => /\ splitTasksSelection \in {DIVIDE_ON_SQUARE, TASK_SPLITTING_ALGORITHM}
             /\ previewInFlight' =
                  [previewInFlight EXCEPT ![splitTasksSelection] = @ + 1]
             /\ \A ways \in DataExtractWays :
                  LET request == PreviewRequest(splitTasksSelection, drawnGeojson, ways)
                  IN /\ splitTasksSelection = DIVIDE_ON_SQUARE
                          => request.url = "/projects/preview-split-by-square/"
                     /\ splitTasksSelection = TASK_SPLITTING_ALGORITHM
                          => request.url = "/projects/task-split"
                     /\ request.geojson = drawnGeojson
                     /\ request.extract # NULL => ways # "osm_data_extract"
     /\ splitTasksSelection = CHOOSE_AREA_AS_TASK
          => \A k \in DOMAIN previewInFlight : previewInFlight'[k] <= previewInFlight[k]
     /\ GetDividedTaskFromGeojson(TRUE) => dividedTaskGeojson' = "squares"
     /\ TaskSplittingPreviewService(TRUE) => dividedTaskGeojson' = "algorithm"]_vars

\* the split generated by the algorithm has arrived and is stored
C18_Witness ==
  /\ mounted /\ Settled
  /\ splitTasksSelection = TASK_SPLITTING_ALGORITHM
  /\ isTasksGenerated.task_splitting_algorithm
  /\ dividedTaskGeojson = "algorithm"
  /\ previewInFlight[TASK_SPLITTING_ALGORITHM] = 0

\* ---------------------------------------------------------- the map layer
\* C19 as stated: the map never holds the Draw and the Modify interaction
\* of the instance at the same time.
C19_DrawModifyExclusive == ~({"draw", "modify"} \subseteq mapInteractions)

\* C20 as stated: once the instance is unmounted the map holds none of its
\* interactions and none of its listeners, and while it is mounted the map
\* holds no listener of an effect run that was cleaned up.
C20_TeardownRemovesAll ==
  /\ ~vlMounted => /\ mapInteractions = {}
                   /\ ~hoverListener
                   /\ clickListeners = 0
                   /\ cursorListeners = 0
  /\ vlMounted => clickListeners <= 1 /\ cursorListeners <= 1

\* ---------------------------------------------------------- the choropleth
\* the largest count of the stored tasks, and the upper end of the legend
MaxOfTaskInfo == MathMax(taskInfo)
LegendEnd == IF MaxOfTaskInfo <= 4 THEN 10 ELSE MaxOfTaskInfo

\* C21: for counts that are not empty the legend has five buckets, the zero
\* bucket in '#FF4538' and one per palette colour in the palette's order;
\* the four run from 1 to the largest count (to 10 if that is at most 4) in
\* steps of a quarter of that span, rounded; every bucket has min <= max and
\* starts where the one before it ends, so every whole number from 0 to the
\* upper end lies in a bucket; getChoroplethColor gives every such number the
\* colour of a bucket that holds it, and gives 0 and an unknown count
\* '#FF4538'; the colour setChoropleth has returned is that colour.
C21_ChoroplethBuckets ==
  taskInfo # <<>> =>
    /\ Len(legendColorArray) = 5
    /\ legendColorArray[1] = [min |-> 0, max |-> 0, color |-> "#FF4538"]
    /\ \A i \in 1..4 : legendColorArray[i + 1].color = colorCodesKeys[i]
    /\ legendColorArray[2].min = 1
    /\ legendColorArray[5].max = LegendEnd
    /\ \A i \in 1..4 :
         /\ 4 * legendColorArray[i + 1].max - 2 <= 4 + i * (LegendEnd - 1)
         /\ 4 + i * (LegendEnd - 1) < 4 * legendColorArray[i + 1].max + 2
    /\ \A i \in 1..5 : legendColorArray[i].min <= legendColorArray[i].max
    /\ \A i \in 2..4 : legendColorArray[i].max = legendColorArray[i + 1].min
    /\ \A value \in 0..LegendEnd :
         \E i \in 1..5 :
           /\ legendColorArray[i].min <= value /\ value <= legendColorArray[i].max
           /\ getChoroplethColor(value, legendColorArray) = legendColorArray[i].color
    /\ getChoroplethColor(0, legendColorArray) = "#FF4538"
    /\ getChoroplethColor(UNDEFINED, legendColorArray) = "#FF4538"
    /\ choroplethColor # NULL
         => /\ featureCount \in {0, UNDEFINED} => choroplethColor = "#FF4538"
            /\ featureCount \notin {0, UNDEFINED}
                 => \E i \in 2..5 :
                      /\ legendColorArray[i].min <= featureCount
                      /\ featureCount <= legendColorArray[i].max
                      /\ choroplethColor = legendColorArray[i].color

\* a task with the largest count of more than ten has been coloured with the
\* last colour of the palette
C21_Witness ==
  /\ taskInfo # <<>>
  /\ MaxOfTaskInfo > 10
  /\ featureCount = MaxOfTaskInfo
  /\ choroplethColor = "#0062AC"

\* --------------------------------------------------- what SUBMIT would send
\* the geometry a successful preview of the strategy stores
GeneratedBy(selection) ==
  IF selection = DIVIDE_ON_SQUARE THEN "squares" ELSE "algorithm"

\* C22 as stated: while SUBMIT is enabled and the selection is one of the
\* two generating strategies, dividedTaskGeojson is the geometry that the
\* selected strategy has generated.
C22_SubmitMeansGeneratedBySelection ==
  (/\ mounted /\ Settled
   /\ taskGenerationStatus
   /\ splitTasksSelection \in {DIVIDE_ON_SQUARE, TASK_SPLITTING_ALGORITHM})
    => dividedTaskGeojson = GeneratedBy(splitTasksSelection)

\* C23 as stated: a submission with the selection choose_area_as_task sends
\* the drawn area, as outline_geojson and as the task-area file.
C23_ChooseAreaSubmitsDrawnArea ==
  [][(submission /\ splitTasksSelection = CHOOSE_AREA_AS_TASK)
       => LET data == ProjectData(projectDetails, splitTasksSelection,
                                  dividedTaskGeojson, drawnGeojson)
          IN /\ data.outline_geojson = drawnGeojson
             /\ data.taskAreaGeojsonFile = drawnGeojson]_vars

\* ------------------------------------------------ the default credentials
\* the organisation of this id has ODK credentials
HasCredentials(orgId) ==
  \E o \in Organisations : o.id = orgId /\ o.odk_central_url # NULL

\* C24 as stated: while the form is shown, defaultODKCredentials is true
\* only if the organisation selected has ODK credentials.
C24_DefaultOnlyWithCredentials ==
  (formMounted /\ values.defaultODKCredentials)
    => HasCredentials(values.organisation_id)

\* the three credentials of these values are empty
CredentialsEmpty(v) ==
  /\ v.odk_central_url = ""
  /\ v.odk_central_user = ""
  /\ v.odk_central_password = ""

\* C25: while defaultODKCredentials is true, in the form and in the details
\* a submission has stored, the url, the user and the password are ''.
C25_DefaultMeansEmptyCredentials ==
  /\ (formMounted /\ values.defaultODKCredentials) => CredentialsEmpty(values)
  /\ (/\ lastSubmit = "submitted"
      /\ "defaultODKCredentials" \in DOMAIN projectDetails
      /\ projectDetails.defaultODKCredentials) => CredentialsEmpty(projectDetails)

\* the form was submitted with the default credentials on
C25_Witness ==
  /\ lastSubmit = "submitted"
  /\ "defaultODKCredentials" \in DOMAIN projectDetails
  /\ projectDetails.defaultODKCredentials
  /\ projectDetails.organisation_id = 1

\* ------------------------------------------------ clearing the form data
\* C26 as stated: the step that navigates to the project after a SUCCESS log
\* dispatches ClearCreateProjectFormData, and after it projectDetails equals
\* initialState.projectDetails and the selection, the geojsons, the log and
\* isTasksGenerated have their initialState values.
C26_ClearRestoresInitialState ==
  [][(navTo = "none" /\ navTo' = "project_details")
       => /\ projectDetails' = InitialProjectDetails
          /\ splitTasksSelection' = NULL
          /\ taskSplittingGeojson' = NULL
          /\ drawnGeojson' = NULL
          /\ dividedTaskGeojson' = NULL
          /\ generateProjectLog' = NULL
          /\ isTasksGenerated' = NoTasksGenerated]_vars

\* --------------------------------------------------- the submission filter
\* the stored table is the response for page 1 of the filter of the component
ShowsFirstPage(data) == data.pagination /\ data.filter = filter /\ data.page = 1

\* C27 as stated: a change of the filter sets paginationPage to 1, and when
\* the last outstanding request completes while the component is on page 1,
\* the stored table is the response for page 1 of its filter: a response that
\* arrives last does not replace a stored page 1 of the filter.
C27_FilterChangeShowsFirstPage ==
  [][/\ filter' # filter => paginationPage' = Num(1)
     /\ (/\ tableMounted /\ paginationPage = Num(1)
         /\ Len(tableInFlight) = 1 /\ tableInFlight' = <<>>
         /\ ShowsFirstPage(submissionTableData))
          => ShowsFirstPage(submissionTableData')]_vars

\* ------------------------------------------------- the debounced search
\* at most one timeout is pending, it is the one the cleanup holds, it
\* carries the text of the search box, and none is pending after an unmount
OneTimerPending ==
  /\ Cardinality(searchTimers) <= 1
  /\ \A t \in searchTimers : t.id = timeoutId /\ t.text = submittedBy
  /\ ~tableMounted => searchTimers = {}

\* a keystroke cancels every pending timeout and leaves one new timeout
KeystrokeCancels ==
  (tableMounted /\ submittedBy' # submittedBy)
    => /\ searchTimers \cap searchTimers' = {}
       /\ Cardinality(searchTimers') = 1

\* this step is the firing of the pending timeout, which stores the text of
\* the search box
TimeoutStoresText ==
  /\ searchTimers # {} /\ searchTimers' = {}
  /\ filter'.submitted_by = submittedBy

\* C28 as stated: each keystroke cancels the pending timeout, at most one is
\* pending, unmounting cancels it, and filter.submitted_by changes only when
\* the timeout fires, to the text of the search box.
C28_SearchChangesOnlyByTimeout ==
  /\ []OneTimerPending
  /\ [][KeystrokeCancels]_vars
  /\ [][(tableMounted /\ filter'.submitted_by # filter.submitted_by)
          => TimeoutStoresText]_vars

\* C28, amended: each keystroke cancels the pending timeout, at most one is
\* pending, unmounting cancels it, and filter.submitted_by changes only when
\* the timeout fires, to the text of the search box, or when Reset Filter
\* stores the initial filter at once.
C28_SearchDebounced ==
  /\ []OneTimerPending
  /\ [][KeystrokeCancels]_vars
  /\ [][(tableMounted /\ filter'.submitted_by # filter.submitted_by)
          => \/ TimeoutStoresText
             \/ (~submissionTableDataLoading /\ filter' = initialFilterState)]_vars

\* the text typed last has reached the filter and no timeout is pending
C28_Witness ==
  /\ tableMounted
  /\ submittedBy = "a" /\ filter.submitted_by = "a"
  /\ searchTimers = {}

\* ----------------------------------------------------- my organisations
\* C29: a mounted Organisation view dispatches MyOrganisationDataService at
\* most once: the dispatch comes with the first click on 'My Organizations',
\* which sets myOrgsLoaded and activeTab 1, and once myOrgsLoaded is set no
\* click and no switch of tab or sub-tab dispatches it again.
C29_MyOrganisationsOnce ==
  /\ [](myOrgDispatches <= 1)
  /\ [](orgMounted => (myOrgsLoaded <=> myOrgDispatches = 1))
  /\ [][(orgMounted /\ myOrgDispatches' > myOrgDispatches)
          => (~myOrgsLoaded /\ myOrgsLoaded' /\ activeTab' = 1)]_vars
  /\ [][(orgMounted /\ orgMounted' /\ myOrgsLoaded)
          => (myOrgsLoaded' /\ myOrgDispatches' = myOrgDispatches)]_vars

\* after the one dispatch and its response the user is back on the
\* unapproved sub-tab of all organisations
C29_Witness ==
  /\ orgMounted
  /\ myOrgsLoaded /\ myOrgDispatches = 1 /\ myOrgInFlight = 0
  /\ activeTab = 0 /\ ~verifiedTab

\* ------------------------------------------------- the order of ProjectById
\* what a call of ProjectById dispatches and requests if nothing fails
ProjectByIdOrder ==
  <<"SetProjectDetialsLoading", "project", "taskList", "taskBbox",
    "SetProjectTaskBoundries", "SetProjectInfo", "SetProjectDetialsLoading",
    "SetNewProjectTrigger">>

\* the first n of the order
OrderPrefix(n) == SubSeq(ProjectByIdOrder, 1, n)

\* C30: a call of ProjectById dispatches SetProjectDetialsLoading(true), then
\* requests the project, the task list and the points in this order; while a
\* request is outstanding it has done nothing else; when it has finished it
\* has either done everything in order, the two stores after the three
\* requests, or stopped after one of the requests without storing anything;
\* and in both cases SetNewProjectTrigger is the last thing it has done.
C30_ProjectByIdOrder ==
  \A c \in CallIds :
    calls[c].thunk = "ProjectById" =>
      IF Outstanding(c)
      THEN \E n \in 2..4 : /\ calls[c].log = OrderPrefix(n)
                           /\ calls[c].pc = ProjectByIdOrder[n]
      ELSE \/ calls[c].log = ProjectByIdOrder
           \/ \E n \in 2..4 : calls[c].log = Append(OrderPrefix(n), "SetNewProjectTrigger")

\* one call has failed at its second request and another has stored its project
C30_Witness ==
  \E c, d \in CallIds :
    /\ calls[c].thunk = "ProjectById" /\ calls[d].thunk = "ProjectById"
    /\ calls[c].log = Append(OrderPrefix(3), "SetNewProjectTrigger")
    /\ calls[d].log = ProjectByIdOrder
    /\ projectInfo = calls[d].payload

====
